---- MODULE Spec2Model ----
(***************************************************************************)
(* The turn-based combat core of The Marakatas: AbilitySystem              *)
(* (systems/AbilitySystem.js, shipped in src/src/systems/MissionManager.js *)
(* from line 116), SessionCharacter / GameSession / CharacterStats         *)
(* (data/Character.js), the ability catalog (data/Abilities.js) and the     *)
(* two grids of the mission scenes (systems/GridSystem.js,                 *)
(* systems/IsometricGrid.js).                                              *)
(***************************************************************************)
EXTENDS Integers, Sequences, FiniteSets, TLC

VARIABLES
  participants,      \* the roster array shared by the scene, AbilitySystem and GameSession
  turnOrder,         \* GameSession.turnOrder: participant ids
  currentTurnIndex,  \* GameSession.currentTurnIndex (0-based, as in the source)
  round,             \* GameSession.round
  logEntries,        \* GameSession.logEntries (event types, in order)
  gridSystem,        \* the GridSystem of MissionScene: its size and its units Map
  grid,              \* the IsometricGrid of MissionSceneIsometric: size, tiles, units
  last               \* the last operation: its request, the roster before it, its result

vars == <<participants, turnOrder, currentTurnIndex, round, logEntries, gridSystem, grid, last>>

(***************************************************************************)
(* Bounds of the exploration.                                              *)
(***************************************************************************)
\* target coordinates x are drawn from 0..MaxCoord
MaxCoord == 4
\* at most MaxLog entries are appended to the session log in one behaviour
MaxLog == 2
\* nextTurn wraps into a new round at most MaxRound times
MaxRound == 1

\* SessionCharacter operations called directly stop once a participant's
\* damageReceived would pass this
MaxDamageReceived == 30

\* the grids are GridWidth columns by GridHeight rows (20 by 10 in the scenes)
GridWidth == 10

GridHeight == 10

\* movement ranges are drawn from 0..MaxRange
MaxRange == 3

(***************************************************************************)
(* Arithmetic helpers (Math.max, Math.min, Math.abs).                      *)
(***************************************************************************)
Max(a, b) == IF a >= b THEN a ELSE b

Min(a, b) == IF a <= b THEN a ELSE b

Abs(a) == IF a < 0 THEN -a ELSE a

\* the element of a set that holds one: The({e(v) : v \in {d}}) is e(d), with d
\* evaluated once
The(S) == CHOOSE v \in S : TRUE

\* Array.prototype.find by id: the first index whose id matches, 0 when none
FindIndex(parts, id) ==
  IF \E i \in 1..Len(parts) : parts[i].id = id
  THEN CHOOSE i \in 1..Len(parts) :
         /\ parts[i].id = id
         /\ \A j \in 1..(i - 1) : parts[j].id # id
  ELSE 0

(***************************************************************************)
(* AbilitySystem.js: grid distance and dice.                               *)
(***************************************************************************)
calculateDistance(x1, y1, x2, y2) == Max(Abs(x1 - x2), Abs(y1 - y2))

\* A notation is the sequence of its characters; << >> is the empty or
\* undefined notation.
Digits == <<"0", "1", "2", "3", "4", "5", "6", "7", "8", "9">>

IsDigit(c) == \E k \in 1..10 : Digits[k] = c

DigitValue(c) == (CHOOSE k \in 1..10 : Digits[k] = c) - 1

\* the last index of the run of digits that starts at i
DigitRunEnd(s, i) ==
  CHOOSE j \in i..Len(s) :
    /\ \A k \in i..j : IsDigit(s[k])
    /\ (j = Len(s) \/ ~IsDigit(s[j + 1]))

\* parseInt of the digits s[i..j]
RECURSIVE parseInt(_, _, _)
parseInt(s, i, j) ==
  IF j < i THEN 0 ELSE 10 * parseInt(s, i, j - 1) + DigitValue(s[j])

\* /(\d+)d(\d+)(?:\+(\d+))?/ matches starting at index i
DiceMatchAt(s, i) ==
  /\ IsDigit(s[i])
  /\ LET j == DigitRunEnd(s, i)
     IN /\ j + 2 <= Len(s)
        /\ s[j + 1] = "d"
        /\ IsDigit(s[j + 2])

parseDiceNotation(notation) ==
  IF notation = << >> \/ ~(\E i \in 1..Len(notation) : DiceMatchAt(notation, i))
  THEN [dice |-> 0, sides |-> 0, bonus |-> 0]
  ELSE LET i == CHOOSE a \in 1..Len(notation) :
                  /\ DiceMatchAt(notation, a)
                  /\ \A b \in 1..(a - 1) : ~DiceMatchAt(notation, b)
           j == DigitRunEnd(notation, i)
           k == DigitRunEnd(notation, j + 2)
           hasBonus == /\ k + 2 <= Len(notation)
                       /\ notation[k + 1] = "+"
                       /\ IsDigit(notation[k + 2])
       IN [dice  |-> parseInt(notation, i, j),
           sides |-> parseInt(notation, j + 2, k),
           bonus |-> IF hasBonus
                     THEN parseInt(notation, k + 2, DigitRunEnd(notation, k + 2))
                     ELSE 0]

\* rollDice: faces[i] is the outcome of Phaser.Math.Between(1, sides) for die i
RECURSIVE SumFaces(_, _)
SumFaces(faces, n) == IF n = 0 THEN 0 ELSE faces[n] + SumFaces(faces, n - 1)

rollDice(diceSpec, faces) == diceSpec.bonus + SumFaces(faces, diceSpec.dice)

(***************************************************************************)
(* Character.js: CharacterStats.                                           *)
(***************************************************************************)
\* getModifier that rounds toward zero
getModifier_TowardZero(attributeValue) ==
  IF attributeValue >= 10 THEN (attributeValue - 10) \div 2
  ELSE -((10 - attributeValue) \div 2)

\* Math.floor((attributeValue - 10) / 2)
getModifier(attributeValue) == (attributeValue - 10) \div 2

calculateMaxPrana(c) ==
  Max(1, 20 + c.dhriti * 2 + c.buddhi + (c.level - 1) * 5)

calculateMaxTapas(c) ==
  Max(5, (10 + c.level * 2) + getModifier(c.bala) * 2 + getModifier(c.dakshata))

calculateMaxMaya(c) ==
  Max(5, (10 + c.level * 2) + getModifier(c.buddhi) * 2 + getModifier(c.prajna))

\* CharacterStats.recalculatePools()
recalculatePools(c) ==
  [c EXCEPT !.maxPrana = calculateMaxPrana(c),
            !.maxTapas = calculateMaxTapas(c),
            !.maxMaya = calculateMaxMaya(c)]

\* options.<field> || default
OrDefault(v, d) == IF v = 0 THEN d ELSE v

\* new CharacterStats(name, options)
CharacterStats(name, options) ==
  LET base == [name     |-> name,
               level    |-> OrDefault(options.level, 1),
               bala     |-> OrDefault(options.bala, 10),
               dakshata |-> OrDefault(options.dakshata, 10),
               dhriti   |-> OrDefault(options.dhriti, 10),
               buddhi   |-> OrDefault(options.buddhi, 10),
               prajna   |-> OrDefault(options.prajna, 10),
               samkalpa |-> OrDefault(options.samkalpa, 10)]
  IN [name     |-> base.name,
      level    |-> base.level,
      bala     |-> base.bala,
      dakshata |-> base.dakshata,
      dhriti   |-> base.dhriti,
      buddhi   |-> base.buddhi,
      prajna   |-> base.prajna,
      samkalpa |-> base.samkalpa,
      maxPrana |-> calculateMaxPrana(base),
      maxTapas |-> calculateMaxTapas(base),
      maxMaya  |-> calculateMaxMaya(base)]

(***************************************************************************)
(* Character.js: SessionCharacter.  A method that returns a value yields   *)
(* [self |-> the character afterwards, ret |-> the value returned].        *)
(***************************************************************************)
\* new SessionCharacter(character, sessionId, options)
SessionCharacter(character, options) ==
  [id             |-> options.id,
   character      |-> character,
   team           |-> options.team,
   x              |-> options.x,
   y              |-> options.y,
   z              |-> 0,
   currentPrana   |-> character.maxPrana,
   currentTapas   |-> character.maxTapas,
   currentMaya    |-> character.maxMaya,
   remainingSpeed |-> OrDefault(options.movementSpeed, 6),
   actions        |-> 1,
   bonusActions   |-> 1,
   reactions      |-> 4,
   status         |-> "active",
   statusEffects  |-> << >>,
   damageDealt    |-> 0,
   damageReceived |-> 0]

DecayEffect(e) == [e EXCEPT !.duration = e.duration - 1]

RECURSIVE DecayEffects(_)
DecayEffects(effects) ==
  IF effects = << >> THEN << >>
  ELSE LET e == DecayEffect(Head(effects))
       IN IF e.duration > 0 THEN <<e>> \o DecayEffects(Tail(effects))
          ELSE DecayEffects(Tail(effects))

\* reset that leaves the status effects as they are
reset_NoDecay(p) ==
  [p EXCEPT !.actions = 1,
            !.bonusActions = 1,
            !.reactions = 4,
            !.remainingSpeed = 6]

reset(p) ==
  [p EXCEPT !.actions = 1,
            !.bonusActions = 1,
            !.reactions = 4,
            !.remainingSpeed = 6,
            !.statusEffects = DecayEffects(p.statusEffects)]

canTakeAction(p, actionType) ==
  CASE actionType = "action"       -> p.actions > 0
    [] actionType = "bonus_action" -> p.bonusActions > 0
    [] actionType = "reaction"     -> p.reactions > 0 /\ p.status # "downed"
    [] actionType = "free"         -> p.status # "downed"
    [] OTHER                       -> FALSE

spendAction(p, actionType) ==
  CASE actionType = "action"       -> [p EXCEPT !.actions = Max(0, p.actions - 1)]
    [] actionType = "bonus_action" -> [p EXCEPT !.bonusActions = Max(0, p.bonusActions - 1)]
    [] actionType = "reaction"     -> [p EXCEPT !.reactions = Max(0, p.reactions - 1)]
    [] OTHER                       -> p

\* spendResource without the check of sufficiency
spendResource_NoCheck(p, resourceType, amount) ==
  CASE resourceType = "prana" ->
         [self |-> [p EXCEPT !.currentPrana = p.currentPrana - amount], ret |-> TRUE]
    [] resourceType = "tapas" ->
         [self |-> [p EXCEPT !.currentTapas = p.currentTapas - amount], ret |-> TRUE]
    [] resourceType = "maya" ->
         [self |-> [p EXCEPT !.currentMaya = p.currentMaya - amount], ret |-> TRUE]
    [] resourceType = "speed" ->
         [self |-> [p EXCEPT !.remainingSpeed = p.remainingSpeed - amount], ret |-> TRUE]
    [] OTHER -> [self |-> p, ret |-> FALSE]

spendResource(p, resourceType, amount) ==
  CASE resourceType = "prana" ->
         IF p.currentPrana >= amount
         THEN [self |-> [p EXCEPT !.currentPrana = p.currentPrana - amount], ret |-> TRUE]
         ELSE [self |-> p, ret |-> FALSE]
    [] resourceType = "tapas" ->
         IF p.currentTapas >= amount
         THEN [self |-> [p EXCEPT !.currentTapas = p.currentTapas - amount], ret |-> TRUE]
         ELSE [self |-> p, ret |-> FALSE]
    [] resourceType = "maya" ->
         IF p.currentMaya >= amount
         THEN [self |-> [p EXCEPT !.currentMaya = p.currentMaya - amount], ret |-> TRUE]
         ELSE [self |-> p, ret |-> FALSE]
    [] resourceType = "speed" ->
         IF p.remainingSpeed >= amount
         THEN [self |-> [p EXCEPT !.remainingSpeed = p.remainingSpeed - amount], ret |-> TRUE]
         ELSE [self |-> p, ret |-> FALSE]
    [] OTHER -> [self |-> p, ret |-> FALSE]

restoreResource(p, resourceType, amount) ==
  CASE resourceType = "prana" ->
         [p EXCEPT !.currentPrana = Min(p.currentPrana + amount, p.character.maxPrana)]
    [] resourceType = "tapas" ->
         [p EXCEPT !.currentTapas = Min(p.currentTapas + amount, p.character.maxTapas)]
    [] resourceType = "maya" ->
         [p EXCEPT !.currentMaya = Min(p.currentMaya + amount, p.character.maxMaya)]
    [] OTHER -> p

moveTo(p, newX, newY) ==
  [self |-> [p EXCEPT !.x = newX, !.y = newY, !.z = 0],
   ret  |-> Max(Abs(newX - p.x), Abs(newY - p.y))]

\* the first index of an effect of that name, 0 when none
FindEffect(effects, effectName) ==
  IF \E i \in 1..Len(effects) : effects[i].name = effectName
  THEN CHOOSE i \in 1..Len(effects) :
         /\ effects[i].name = effectName
         /\ \A j \in 1..(i - 1) : effects[j].name # effectName
  ELSE 0

\* addStatusEffect that never looks for the effect among those held
addStatusEffect_AlwaysPush(p, effectName, duration) ==
  [p EXCEPT !.statusEffects =
              Append(p.statusEffects, [name |-> effectName, duration |-> duration])]

addStatusEffect(p, effectName, duration) ==
  LET i == FindEffect(p.statusEffects, effectName)
  IN IF i # 0
     THEN [p EXCEPT !.statusEffects[i].duration =
                      Max(p.statusEffects[i].duration, duration)]
     ELSE [p EXCEPT !.statusEffects =
                      Append(p.statusEffects, [name |-> effectName, duration |-> duration])]

removeStatusEffect(p, effectName) ==
  [p EXCEPT !.statusEffects = SelectSeq(p.statusEffects, LAMBDA e : e.name # effectName)]

\* takeDamage without the floor at 0
takeDamage_NoClamp(p, amount) ==
  LET newPrana == p.currentPrana - amount
  IN [self |-> [p EXCEPT !.currentPrana = newPrana,
                         !.damageReceived = p.damageReceived + amount,
                         !.status = IF newPrana <= 0 THEN "downed" ELSE p.status],
      ret  |-> p.currentPrana - newPrana]

takeDamage(p, amount) ==
  LET newPrana == Max(0, p.currentPrana - amount)
  IN [self |-> [p EXCEPT !.currentPrana = newPrana,
                         !.damageReceived = p.damageReceived + amount,
                         !.status = IF newPrana <= 0 THEN "downed" ELSE p.status],
      ret  |-> p.currentPrana - newPrana]

\* heal without the ceiling at maxPrana
heal_NoCeiling(p, amount) ==
  LET newPrana == p.currentPrana + amount
  IN [self |-> [p EXCEPT !.currentPrana = newPrana,
                         !.status = IF p.status = "downed" /\ newPrana > 0
                                    THEN "active" ELSE p.status],
      ret  |-> newPrana - p.currentPrana]

heal(p, amount) ==
  LET newPrana == Min(p.currentPrana + amount, p.character.maxPrana)
  IN [self |-> [p EXCEPT !.currentPrana = newPrana,
                         !.status = IF p.status = "downed" /\ newPrana > 0
                                    THEN "active" ELSE p.status],
      ret  |-> newPrana - p.currentPrana]

(***************************************************************************)
(* Abilities.js: ABILITY_DATABASE.  An absent damageDice is << >>, an      *)
(* absent damageAttribute or statusEffect is "undefined", a null           *)
(* resourceType is "null", null requirements are << >>.                    *)
(***************************************************************************)
\* range: 'speed', a string: every numeric comparison with it is false
RangeSpeed == -1

Ability(id, actionType, targetType, effectType, damageDice, damageAttribute, range, effectRadius, resourceType, resourceCost, statusEffect, requirements) ==
  [id |-> id, name |-> id, actionType |-> actionType, targetType |-> targetType,
   effectType |-> effectType, damageDice |-> damageDice,
   damageAttribute |-> damageAttribute, range |-> range,
   effectRadius |-> effectRadius, resourceType |-> resourceType,
   resourceCost |-> resourceCost, statusEffect |-> statusEffect,
   requirements |-> requirements]

ABILITY_DATABASE ==
  [basic_move |->
     Ability("basic_move", "free", "ground", "teleport", << >>, "undefined",
             RangeSpeed, 0, "null", 0, "undefined", << >>),
   blowpipe_shot |->
     Ability("blowpipe_shot", "action", "enemy", "damage", <<"1", "d", "8">>, "dakshata",
             8, 0, "null", 0, "undefined", << >>),
   rapid_fire |->
     Ability("rapid_fire", "action", "enemy", "damage", <<"2", "d", "6">>, "dakshata",
             6, 0, "tapas", 3, "undefined", << >>),
   precision_shot |->
     Ability("precision_shot", "bonus_action", "enemy", "damage",
             <<"1", "d", "1", "0", "+", "2">>, "dakshata",
             10, 0, "maya", 2, "undefined", [minPrajna |-> 12]),
   scatter_shot |->
     Ability("scatter_shot", "action", "ground", "damage", <<"1", "d", "6">>, "dakshata",
             8, 2, "tapas", 2, "undefined", << >>),
   basic_strike |->
     Ability("basic_strike", "action", "enemy", "damage", <<"1", "d", "8">>, "bala",
             1, 0, "null", 0, "undefined", << >>),
   power_attack |->
     Ability("power_attack", "bonus_action", "enemy", "damage",
             <<"2", "d", "8", "+", "2">>, "bala",
             1, 0, "tapas", 3, "undefined", << >>),
   intimidating_shout |->
     Ability("intimidating_shout", "action", "ground", "status", << >>, "undefined",
             5, 3, "tapas", 1, "frightened", << >>),
   defensive_stance |->
     Ability("defensive_stance", "free", "self", "status", << >>, "undefined",
             0, 0, "null", 0, "defended", << >>),
   shield_bash |->
     Ability("shield_bash", "action", "enemy", "damage", <<"1", "d", "6">>, "bala",
             1, 0, "null", 0, "undefined", << >>),
   shield_ward |->
     Ability("shield_ward", "reaction", "self", "status", << >>, "undefined",
             0, 2, "tapas", 2, "shielded", << >>),
   quick_movement |->
     Ability("quick_movement", "bonus_action", "ground", "teleport", << >>, "undefined",
             6, 0, "speed", 0, "undefined", << >>),
   first_aid |->
     Ability("first_aid", "action", "ally", "heal", <<"1", "d", "8", "+", "2">>, "buddhi",
             2, 0, "null", 0, "undefined", << >>),
   healing_herbs |->
     Ability("healing_herbs", "action", "ally", "heal", <<"2", "d", "6", "+", "1">>, "buddhi",
             3, 0, "maya", 2, "undefined", << >>),
   tactical_repositioning |->
     Ability("tactical_repositioning", "free", "ground", "teleport", << >>, "undefined",
             5, 0, "speed", 0, "undefined", << >>)]

\* Object.values(ABILITY_DATABASE) searched by id (initializeGameSystems)
AbilityIds == DOMAIN ABILITY_DATABASE

(***************************************************************************)
(* AbilitySystem.js: validation layer.                                     *)
(***************************************************************************)
\* distance > ability.range, false when range is the string 'speed'
ExceedsRange(distance, range) == range # RangeSpeed /\ distance > range

\* a mutation of validateAbilityUse: the checks of the downed status are dropped
validateAbilityUse_NoDownedCheck(actor, ability) ==
  LET resourceType == IF ability.resourceType = "null" THEN "tapas"
                      ELSE ability.resourceType
  IN IF ability.actionType = "action" /\ ~canTakeAction(actor, "action")
     THEN [valid |-> FALSE, message |-> "No actions remaining this turn."]
     ELSE IF ability.actionType = "bonus_action" /\ ~canTakeAction(actor, "bonus_action")
     THEN [valid |-> FALSE, message |-> "No bonus actions remaining this turn."]
     ELSE IF ability.actionType = "reaction" /\ ~canTakeAction(actor, "reaction")
     THEN [valid |-> FALSE, message |-> "No reactions remaining this turn."]
     ELSE IF /\ ability.resourceCost > 0
             /\ resourceType = "prana"
             /\ actor.currentPrana < ability.resourceCost
     THEN [valid |-> FALSE, message |-> "Insufficient Prana"]
     ELSE IF /\ ability.resourceCost > 0
             /\ resourceType = "tapas"
             /\ actor.currentTapas < ability.resourceCost
     THEN [valid |-> FALSE, message |-> "Insufficient Tapas"]
     ELSE IF /\ ability.resourceCost > 0
             /\ resourceType = "maya"
             /\ actor.currentMaya < ability.resourceCost
     THEN [valid |-> FALSE, message |-> "Insufficient Maya"]
     ELSE IF /\ ability.resourceCost > 0
             /\ resourceType = "speed"
             /\ actor.remainingSpeed < ability.resourceCost
     THEN [valid |-> FALSE, message |-> "Insufficient movement"]
     ELSE IF /\ ability.effectType = "teleport"
             /\ ability.resourceType # "speed"
             /\ actor.remainingSpeed < 1
     THEN [valid |-> FALSE, message |-> "No movement speed remaining this turn."]
     ELSE [valid |-> TRUE, message |-> ""]

\* a mutation of validateAbilityUse: the resource costs are not checked
validateAbilityUse_NoCostCheck(actor, ability) ==
  LET resourceType == IF ability.resourceType = "null" THEN "tapas"
                      ELSE ability.resourceType
  IN IF actor.status = "downed"
     THEN [valid |-> FALSE, message |-> "is downed and cannot act."]
     ELSE IF ability.actionType = "action" /\ ~canTakeAction(actor, "action")
     THEN [valid |-> FALSE, message |-> "No actions remaining this turn."]
     ELSE IF ability.actionType = "bonus_action" /\ ~canTakeAction(actor, "bonus_action")
     THEN [valid |-> FALSE, message |-> "No bonus actions remaining this turn."]
     ELSE IF ability.actionType = "reaction" /\ ~canTakeAction(actor, "reaction")
     THEN [valid |-> FALSE, message |-> "No reactions remaining this turn."]
     ELSE IF ability.actionType = "free" /\ actor.status = "downed"
     THEN [valid |-> FALSE, message |-> "Cannot take free actions while downed."]
     ELSE IF /\ ability.effectType = "teleport"
             /\ ability.resourceType # "speed"
             /\ actor.remainingSpeed < 1
     THEN [valid |-> FALSE, message |-> "No movement speed remaining this turn."]
     ELSE [valid |-> TRUE, message |-> ""]

validateAbilityUse(actor, ability) ==
  LET resourceType == IF ability.resourceType = "null" THEN "tapas"
                      ELSE ability.resourceType
  IN IF actor.status = "downed"
     THEN [valid |-> FALSE, message |-> "is downed and cannot act."]
     ELSE IF ability.actionType = "action" /\ ~canTakeAction(actor, "action")
     THEN [valid |-> FALSE, message |-> "No actions remaining this turn."]
     ELSE IF ability.actionType = "bonus_action" /\ ~canTakeAction(actor, "bonus_action")
     THEN [valid |-> FALSE, message |-> "No bonus actions remaining this turn."]
     ELSE IF ability.actionType = "reaction" /\ ~canTakeAction(actor, "reaction")
     THEN [valid |-> FALSE, message |-> "No reactions remaining this turn."]
     ELSE IF ability.actionType = "free" /\ actor.status = "downed"
     THEN [valid |-> FALSE, message |-> "Cannot take free actions while downed."]
     ELSE IF /\ ability.resourceCost > 0
             /\ resourceType = "prana"
             /\ actor.currentPrana < ability.resourceCost
     THEN [valid |-> FALSE, message |-> "Insufficient Prana"]
     ELSE IF /\ ability.resourceCost > 0
             /\ resourceType = "tapas"
             /\ actor.currentTapas < ability.resourceCost
     THEN [valid |-> FALSE, message |-> "Insufficient Tapas"]
     ELSE IF /\ ability.resourceCost > 0
             /\ resourceType = "maya"
             /\ actor.currentMaya < ability.resourceCost
     THEN [valid |-> FALSE, message |-> "Insufficient Maya"]
     ELSE IF /\ ability.resourceCost > 0
             /\ resourceType = "speed"
             /\ actor.remainingSpeed < ability.resourceCost
     THEN [valid |-> FALSE, message |-> "Insufficient movement"]
     ELSE IF /\ ability.effectType = "teleport"
             /\ ability.resourceType # "speed"
             /\ actor.remainingSpeed < 1
     THEN [valid |-> FALSE, message |-> "No movement speed remaining this turn."]
     ELSE [valid |-> TRUE, message |-> ""]

\* targetInfo.<field> is present (not undefined)
Has(targetInfo, f) == f \in DOMAIN targetInfo

TargetingFailure(message) ==
  [valid |-> FALSE, message |-> message, target |-> 0, position |-> << >>]

\* a mutation of validateTargeting: the range check of a unit target is dropped
validateTargeting_NoRangeCheck(parts, actor, ability, targetInfo) ==
  IF ability.targetType = "self"
  THEN [valid |-> TRUE, message |-> "", target |-> FindIndex(parts, actor.id),
        position |-> << >>]
  ELSE IF ability.targetType = "ground"
  THEN IF ~Has(targetInfo, "x") \/ ~Has(targetInfo, "y")
       THEN TargetingFailure("Ground target requires x, y coordinates.")
       ELSE IF ExceedsRange(calculateDistance(actor.x, actor.y, targetInfo.x, targetInfo.y),
                            ability.range)
       THEN TargetingFailure("Target location out of range")
       ELSE [valid |-> TRUE, message |-> "", target |-> 0,
             position |-> <<targetInfo.x, targetInfo.y>>]
  ELSE IF ability.targetType = "enemy" \/ ability.targetType = "ally"
  THEN IF ~Has(targetInfo, "participantId") \/ targetInfo.participantId = ""
       THEN TargetingFailure("Must specify a target participant.")
       ELSE LET t == FindIndex(parts, targetInfo.participantId)
            IN IF t = 0
               THEN TargetingFailure("Target not found.")
               ELSE IF ability.targetType = "enemy" /\ actor.team = parts[t].team
               THEN TargetingFailure("Cannot target allies with this ability.")
               ELSE IF ability.targetType = "ally" /\ actor.team # parts[t].team
               THEN TargetingFailure("Can only target allies with this ability.")
               ELSE [valid |-> TRUE, message |-> "", target |-> t, position |-> << >>]
  ELSE TargetingFailure("Unknown target type.")

\* a mutation of validateTargeting: the team alignment checks are dropped
validateTargeting_NoTeamCheck(parts, actor, ability, targetInfo) ==
  IF ability.targetType = "self"
  THEN [valid |-> TRUE, message |-> "", target |-> FindIndex(parts, actor.id),
        position |-> << >>]
  ELSE IF ability.targetType = "ground"
  THEN IF ~Has(targetInfo, "x") \/ ~Has(targetInfo, "y")
       THEN TargetingFailure("Ground target requires x, y coordinates.")
       ELSE IF ExceedsRange(calculateDistance(actor.x, actor.y, targetInfo.x, targetInfo.y),
                            ability.range)
       THEN TargetingFailure("Target location out of range")
       ELSE [valid |-> TRUE, message |-> "", target |-> 0,
             position |-> <<targetInfo.x, targetInfo.y>>]
  ELSE IF ability.targetType = "enemy" \/ ability.targetType = "ally"
  THEN IF ~Has(targetInfo, "participantId") \/ targetInfo.participantId = ""
       THEN TargetingFailure("Must specify a target participant.")
       ELSE LET t == FindIndex(parts, targetInfo.participantId)
            IN IF t = 0
               THEN TargetingFailure("Target not found.")
               ELSE IF ExceedsRange(calculateDistance(actor.x, actor.y,
                                                      parts[t].x, parts[t].y),
                                    ability.range)
               THEN TargetingFailure("Target out of range")
               ELSE [valid |-> TRUE, message |-> "", target |-> t, position |-> << >>]
  ELSE TargetingFailure("Unknown target type.")

\* target is the index of the resolved participant (0 for null), position is
\* <<x, y>> (<< >> for null)
validateTargeting(parts, actor, ability, targetInfo) ==
  IF ability.targetType = "self"
  THEN [valid |-> TRUE, message |-> "", target |-> FindIndex(parts, actor.id),
        position |-> << >>]
  ELSE IF ability.targetType = "ground"
  THEN IF ~Has(targetInfo, "x") \/ ~Has(targetInfo, "y")
       THEN TargetingFailure("Ground target requires x, y coordinates.")
       ELSE IF ExceedsRange(calculateDistance(actor.x, actor.y, targetInfo.x, targetInfo.y),
                            ability.range)
       THEN TargetingFailure("Target location out of range")
       ELSE [valid |-> TRUE, message |-> "", target |-> 0,
             position |-> <<targetInfo.x, targetInfo.y>>]
  ELSE IF ability.targetType = "enemy" \/ ability.targetType = "ally"
  THEN IF ~Has(targetInfo, "participantId") \/ targetInfo.participantId = ""
       THEN TargetingFailure("Must specify a target participant.")
       ELSE LET t == FindIndex(parts, targetInfo.participantId)
            IN IF t = 0
               THEN TargetingFailure("Target not found.")
               ELSE IF ExceedsRange(calculateDistance(actor.x, actor.y,
                                                      parts[t].x, parts[t].y),
                                    ability.range)
               THEN TargetingFailure("Target out of range")
               ELSE IF ability.targetType = "enemy" /\ actor.team = parts[t].team
               THEN TargetingFailure("Cannot target allies with this ability.")
               ELSE IF ability.targetType = "ally" /\ actor.team # parts[t].team
               THEN TargetingFailure("Can only target allies with this ability.")
               ELSE [valid |-> TRUE, message |-> "", target |-> t, position |-> << >>]
  ELSE TargetingFailure("Unknown target type.")

\* requirements.minX && actor.character.x < requirements.minX
validateCustomRequirements(actor, requirements) ==
  IF DOMAIN requirements = {}
  THEN [valid |-> TRUE, message |-> ""]
  ELSE IF /\ "minPrajna" \in DOMAIN requirements
          /\ requirements.minPrajna # 0
          /\ actor.character.prajna < requirements.minPrajna
  THEN [valid |-> FALSE, message |-> "Requires Prajna"]
  ELSE IF /\ "minBala" \in DOMAIN requirements
          /\ requirements.minBala # 0
          /\ actor.character.bala < requirements.minBala
  THEN [valid |-> FALSE, message |-> "Requires Bala"]
  ELSE [valid |-> TRUE, message |-> ""]

(***************************************************************************)
(* AbilitySystem.js: resource consumption and effect application.  The     *)
(* roster is passed as a sequence and a participant as its index, so that  *)
(* an actor who is also the target is one object, as in the source.        *)
(***************************************************************************)
consumeResources(actor, ability) ==
  LET spent == IF ability.actionType \in {"action", "bonus_action", "reaction"}
               THEN spendAction(actor, ability.actionType)
               ELSE actor
  IN IF ability.resourceCost > 0
     THEN spendResource(spent,
                        IF ability.resourceType = "null" THEN "tapas"
                        ELSE ability.resourceType,
                        ability.resourceCost).self
     ELSE spent

\* actor.character.getModifier(actor.character[ability.damageAttribute]), if any
AttributeModifier(actor, ability) ==
  IF ability.damageAttribute # "undefined"
  THEN getModifier(actor.character[ability.damageAttribute])
  ELSE 0

applyDamageEffect(parts, a, t, ability, faces) ==
  LET totalDamage == rollDice(parseDiceNotation(ability.damageDice), faces)
                       + AttributeModifier(parts[a], ability)
  IN The({[participants |->
             [[parts EXCEPT ![t] = hit.self]
                EXCEPT ![a].damageDealt = @ + hit.ret],
           events |-> <<[eventType      |-> "damage",
                         actor          |-> parts[a].character.name,
                         target         |-> parts[t].character.name,
                         ability        |-> ability.name,
                         damage         |-> hit.ret,
                         targetStatus   |-> hit.self.status,
                         remainingPrana |-> hit.self.currentPrana]>>] :
          hit \in {takeDamage(parts[t], totalDamage)}})

applyHealEffect(parts, a, t, ability, faces) ==
  LET totalHealing == rollDice(parseDiceNotation(ability.damageDice), faces)
                        + AttributeModifier(parts[a], ability)
  IN The({[participants |-> [parts EXCEPT ![t] = healed.self],
           events |-> <<[eventType      |-> "heal",
                         actor          |-> parts[a].character.name,
                         target         |-> parts[t].character.name,
                         ability        |-> ability.name,
                         healing        |-> healed.ret,
                         targetStatus   |-> healed.self.status,
                         remainingPrana |-> healed.self.currentPrana]>>] :
          healed \in {heal(parts[t], totalHealing)}})

\* a mutation of applyTeleportEffect: the distance moved is not charged
applyTeleportEffect_NoSpeedCost(parts, a, targetPosition, ability) ==
  LET actor    == parts[a]
      distance == calculateDistance(actor.x, actor.y,
                                    targetPosition[1], targetPosition[2])
  IN IF ability.resourceType = "speed" /\ distance > actor.remainingSpeed
     THEN [participants |-> parts,
           events |-> <<[eventType |-> "error", message |-> "Cannot move"]>>]
     ELSE LET moved == moveTo(actor, targetPosition[1], targetPosition[2]).self
          IN [participants |-> [parts EXCEPT ![a] = moved],
              events |-> <<[eventType     |-> "teleport",
                            actor         |-> actor.character.name,
                            ability       |-> ability.name,
                            oldPos        |-> <<actor.x, actor.y>>,
                            newPos        |-> <<moved.x, moved.y>>,
                            statusApplied |-> "null"]>>]

applyTeleportEffect(parts, a, targetPosition, ability) ==
  LET actor    == parts[a]
      distance == calculateDistance(actor.x, actor.y,
                                    targetPosition[1], targetPosition[2])
  IN IF ability.resourceType = "speed" /\ distance > actor.remainingSpeed
     THEN [participants |-> parts,
           events |-> <<[eventType |-> "error", message |-> "Cannot move"]>>]
     ELSE LET moved  == moveTo(actor, targetPosition[1], targetPosition[2]).self
              paid   == IF ability.resourceType = "speed"
                        THEN spendResource(moved, "speed", distance).self
                        ELSE moved
          IN The({[participants |-> [parts EXCEPT ![a] = marked],
                   events |-> <<[eventType     |-> "teleport",
                                 actor         |-> actor.character.name,
                                 ability       |-> ability.name,
                                 oldPos        |-> <<actor.x, actor.y>>,
                                 newPos        |-> <<marked.x, marked.y>>,
                                 statusApplied |-> IF ability.statusEffect # "undefined"
                                                   THEN ability.statusEffect
                                                   ELSE "null"]>>] :
                  marked \in {IF ability.statusEffect # "undefined"
                              THEN addStatusEffect(paid, ability.statusEffect, 1)
                              ELSE paid}})

\* the indices 1..n in order
Indices(n) == [i \in 1..n |-> i]

\* a mutation of getParticipantsInRadius: the downed are not filtered out
getParticipantsInRadius_WithDowned(parts, centerX, centerY, radius) ==
  SelectSeq(Indices(Len(parts)),
            LAMBDA i : calculateDistance(centerX, centerY, parts[i].x, parts[i].y) <= radius)

\* the indices of the participants kept by the filter, in roster order
getParticipantsInRadius(parts, centerX, centerY, radius) ==
  SelectSeq(Indices(Len(parts)),
            LAMBDA i : /\ calculateDistance(centerX, centerY, parts[i].x, parts[i].y)
                            <= radius
                       /\ parts[i].status # "downed")

applyStatusEffect(parts, a, t, ability) ==
  [participants |-> IF ability.statusEffect # "undefined"
                    THEN [parts EXCEPT ![t] = addStatusEffect(parts[t], ability.statusEffect, 1)]
                    ELSE parts,
   events |-> <<[eventType    |-> "status_applied",
                 actor        |-> parts[a].character.name,
                 target       |-> parts[t].character.name,
                 ability      |-> ability.name,
                 statusEffect |-> ability.statusEffect]>>]

\* the body of the loops "for (const target of affected)"
ApplyToTarget(parts, a, t, ability, faces) ==
  IF ability.effectType = "damage" THEN applyDamageEffect(parts, a, t, ability, faces)
  ELSE IF ability.effectType = "heal" THEN applyHealEffect(parts, a, t, ability, faces)
  ELSE IF ability.effectType = "status" THEN applyStatusEffect(parts, a, t, ability)
  ELSE [participants |-> parts, events |-> << >>]

\* the loop itself, from the k-th affected participant on; rolls[k] are the
\* faces rolled for the k-th one
RECURSIVE ApplyToAffected(_, _, _, _, _, _)
ApplyToAffected(parts, a, affected, ability, rolls, k) ==
  IF k > Len(affected)
  THEN [participants |-> parts, events |-> << >>]
  ELSE The({The({[participants |-> rest.participants,
                   events |-> one.events \o rest.events] :
                  rest \in {ApplyToAffected(one.participants, a, affected, ability,
                                            rolls, k + 1)}}) :
            one \in {ApplyToTarget(parts, a, affected[k], ability, rolls[k])}})

\* the ids reported are the first affected participant's, at every place
IdsOf_FirstOnly(parts, indices) == [k \in 1..Len(indices) |-> parts[indices[1]].id]

IdsOf(parts, indices) == [k \in 1..Len(indices) |-> parts[indices[k]].id]

\* the outcome of step 6 from what an effect application returned
Applied(r, affectedIds) ==
  [participants |-> r.participants, logEvents |-> r.events,
   affectedParticipants |-> affectedIds]

\* executeAbility, step 6, the loop over the affected participants
ApplyToAll(parts, a, affected, ability, rolls) ==
  Applied(ApplyToAffected(parts, a, affected, ability, rolls, 1), IdsOf(parts, affected))

\* executeAbility, step 6
ApplyEffects(parts, a, ability, targetValidation, rolls) ==
  IF ability.targetType = "self"
  THEN Applied(IF ability.effectType = "damage"
               THEN applyDamageEffect(parts, a, a, ability, rolls[1])
               ELSE IF ability.effectType = "heal"
               THEN applyHealEffect(parts, a, a, ability, rolls[1])
               ELSE [participants |-> parts, events |-> << >>],
               <<parts[a].id>>)
  ELSE IF ability.effectType = "teleport"
  THEN Applied(applyTeleportEffect(parts, a, targetValidation.position, ability),
               <<parts[a].id>>)
  ELSE IF ability.targetType = "ground"
  THEN ApplyToAll(parts, a,
                  getParticipantsInRadius(parts, targetValidation.position[1],
                                          targetValidation.position[2],
                                          ability.effectRadius),
                  ability, rolls)
  ELSE IF ability.targetType = "enemy" \/ ability.targetType = "ally"
  THEN ApplyToAll(parts, a,
                  IF ability.effectRadius > 0
                  THEN getParticipantsInRadius(parts,
                                               parts[targetValidation.target].x,
                                               parts[targetValidation.target].y,
                                               ability.effectRadius)
                  ELSE <<targetValidation.target>>,
                  ability, rolls)
  ELSE [participants |-> parts, logEvents |-> << >>, affectedParticipants |-> << >>]

Failure(parts, message) ==
  [participants |-> parts, success |-> FALSE, message |-> message,
   logEvents |-> << >>, affectedParticipants |-> << >>]

\* executeAbility, steps 7 and 8
Success(applied) ==
  [participants |-> applied.participants, success |-> TRUE, message |-> "used",
   logEvents |-> applied.logEvents,
   affectedParticipants |-> applied.affectedParticipants]

\* executeAbility, steps 5 to 8
Resolve(parts, a, ability, targetValidation, rolls) ==
  Success(ApplyEffects(IF ~(ability.effectType = "teleport"
                            /\ ability.resourceType = "speed")
                       THEN [parts EXCEPT ![a] = consumeResources(parts[a], ability)]
                       ELSE parts,
                       a, ability, targetValidation, rolls))

HasRequirements(ability) == DOMAIN ability.requirements # {}

\* executeAbility, step 4
CheckRequirements(actor, ability) ==
  IF HasRequirements(ability)
  THEN validateCustomRequirements(actor, ability.requirements)
  ELSE [valid |-> TRUE, message |-> ""]

\* executeAbility, steps 2 to 8: use, targeting and reqs are what
\* validateAbilityUse, validateTargeting and validateCustomRequirements return
Validated(parts, a, ability, use, targeting, reqs, rolls) ==
  IF ~use.valid THEN Failure(parts, use.message)
  ELSE IF ~targeting.valid THEN Failure(parts, targeting.message)
  ELSE IF ~reqs.valid THEN Failure(parts, reqs.message)
  ELSE Resolve(parts, a, ability, targeting, rolls)

\* executeAbility, from the actor and the ability loaded in step 1
WithLoaded(parts, a, ability, primaryTarget, rolls) ==
  Validated(parts, a, ability,
            validateAbilityUse(parts[a], ability),
            validateTargeting(parts, parts[a], ability, primaryTarget),
            CheckRequirements(parts[a], ability), rolls)

\* executeAbility, from the index of the actor found, 0 when none is
WithActor(parts, a, request, rolls) ==
  IF a = 0 THEN Failure(parts, "Actor not found.")
  ELSE IF request.abilityId \notin AbilityIds THEN Failure(parts, "Ability not found.")
  ELSE WithLoaded(parts, a, ABILITY_DATABASE[request.abilityId],
                  request.primaryTarget, rolls)

\* a mutation of executeAbility: the resources are consumed as soon as the
\* actor and the ability are loaded, before the validations
executeAbility_ConsumesFirst(parts, request, rolls) ==
  IF FindIndex(parts, request.actorId) = 0 THEN Failure(parts, "Actor not found.")
  ELSE IF request.abilityId \notin AbilityIds THEN Failure(parts, "Ability not found.")
  ELSE The({WithLoaded([parts EXCEPT ![a] = consumeResources(parts[a], ability)],
                       a, ability, request.primaryTarget, rolls) :
            a \in {FindIndex(parts, request.actorId)},
            ability \in {ABILITY_DATABASE[request.abilityId]}})

\* request is [actorId, abilityId, primaryTarget]; rolls are the dice outcomes
\* the call draws, one sequence of faces per affected participant
executeAbility(parts, request, rolls) ==
  WithActor(parts, FindIndex(parts, request.actorId), request, rolls)

(***************************************************************************)
(* GridSystem.js.  The units Map is a function from position keys to the   *)
(* ids of the units set there.                                             *)
(***************************************************************************)
\* new GridSystem(scene, gridWidth, gridHeight)
GridSystem(gridWidth, gridHeight) ==
  [gridWidth |-> gridWidth, gridHeight |-> gridHeight, units |-> << >>]

isValidPosition(g, gridX, gridY) ==
  gridX >= 0 /\ gridX < g.gridWidth /\ gridY >= 0 /\ gridY < g.gridHeight

\* the string `${gridX},${gridY}`: one key for each pair of integers
getPositionKey(gridX, gridY) == <<gridX, gridY>>

isOccupied(g, gridX, gridY) == getPositionKey(gridX, gridY) \in DOMAIN g.units

placeUnit(g, unit, gridX, gridY) ==
  [g EXCEPT !.units = [key \in DOMAIN g.units \cup {getPositionKey(gridX, gridY)} |->
                         IF key = getPositionKey(gridX, gridY) THEN unit ELSE g.units[key]]]

removeUnit(g, gridX, gridY) ==
  [g EXCEPT !.units = [key \in DOMAIN g.units \ {getPositionKey(gridX, gridY)} |->
                         g.units[key]]]

\* the k-th pair (dx, dy) of the two nested loops from -range to range
Offset(k, range) ==
  [dx |-> ((k - 1) \div (2 * range + 1)) - range,
   dy |-> ((k - 1) % (2 * range + 1)) - range]

\* calculateMovementRange that also returns the position it starts from
calculateMovementRange_WithStart(g, gridX, gridY, range) ==
  LET offsets == [k \in 1..((2 * range + 1) * (2 * range + 1)) |-> Offset(k, range)]
      chosen == SelectSeq(offsets, LAMBDA o :
                  /\ Abs(o.dx) + Abs(o.dy) <= range
                  /\ isValidPosition(g, gridX + o.dx, gridY + o.dy)
                  /\ ~isOccupied(g, gridX + o.dx, gridY + o.dy))
  IN [k \in 1..Len(chosen) |-> [x |-> gridX + chosen[k].dx, y |-> gridY + chosen[k].dy]]

calculateMovementRange(g, gridX, gridY, range) ==
  LET offsets == [k \in 1..((2 * range + 1) * (2 * range + 1)) |-> Offset(k, range)]
      chosen == SelectSeq(offsets, LAMBDA o :
                  /\ Abs(o.dx) + Abs(o.dy) <= range
                  /\ Abs(o.dx) + Abs(o.dy) > 0
                  /\ isValidPosition(g, gridX + o.dx, gridY + o.dy)
                  /\ ~isOccupied(g, gridX + o.dx, gridY + o.dy))
  IN [k \in 1..Len(chosen) |-> [x |-> gridX + chosen[k].dx, y |-> gridY + chosen[k].dy]]

(***************************************************************************)
(* IsometricGrid.js.  tiles is the set of the tiles whose occupied flag is *)
(* set (every tile is walkable), units the function from participant ids   *)
(* to the cells recorded for them.                                         *)
(***************************************************************************)
\* new IsometricGrid(scene, gridWidth, gridHeight) and createGrid()
IsometricGrid(gridWidth, gridHeight) ==
  [gridWidth |-> gridWidth, gridHeight |-> gridHeight, tiles |-> {}, units |-> << >>]

\* this.tiles[gridY] && this.tiles[gridY][gridX]
TileAt(g, gridX, gridY) ==
  gridY >= 0 /\ gridY < g.gridHeight /\ gridX >= 0 /\ gridX < g.gridWidth

isoPlaceUnit(g, participantId, gridX, gridY) ==
  [g EXCEPT !.units = [id \in DOMAIN g.units \cup {participantId} |->
                         IF id = participantId THEN [gridX |-> gridX, gridY |-> gridY]
                         ELSE g.units[id]],
            !.tiles = IF TileAt(g, gridX, gridY) THEN g.tiles \cup {<<gridX, gridY>>}
                      ELSE g.tiles]

moveUnit(g, participantId, newX, newY) ==
  IF participantId \notin DOMAIN g.units THEN g
  ELSE LET unit == g.units[participantId]
           cleared == IF TileAt(g, unit.gridX, unit.gridY)
                      THEN g.tiles \ {<<unit.gridX, unit.gridY>>} ELSE g.tiles
       IN [g EXCEPT !.units[participantId] = [gridX |-> newX, gridY |-> newY],
                    !.tiles = IF TileAt(g, newX, newY) THEN cleared \cup {<<newX, newY>>}
                              ELSE cleared]

isValidTile(g, gridX, gridY) ==
  IF gridX < 0 \/ gridX >= g.gridWidth THEN FALSE
  ELSE IF gridY < 0 \/ gridY >= g.gridHeight THEN FALSE
  ELSE TRUE

isoIsOccupied(g, gridX, gridY) ==
  IF ~isValidTile(g, gridX, gridY) THEN TRUE ELSE <<gridX, gridY>> \in g.tiles

\* the four neighbours of a queue entry, in the order of the source, one step
\* farther
Neighbors(current) ==
  <<[x |-> current.x + 1, y |-> current.y, dist |-> current.dist + 1],
    [x |-> current.x - 1, y |-> current.y, dist |-> current.dist + 1],
    [x |-> current.x, y |-> current.y + 1, dist |-> current.dist + 1],
    [x |-> current.x, y |-> current.y - 1, dist |-> current.dist + 1]>>

\* the while loop of calculateMovementRange, from a queue, the visited keys
\* and the moves found so far
RECURSIVE SearchFrom(_, _, _, _, _, _, _, _)
SearchFrom(g, startX, startY, maxDistance, ignoreUnits, queue, visited, validMoves) ==
  IF queue = << >> THEN validMoves
  ELSE IF <<Head(queue).x, Head(queue).y>> \in visited
  THEN SearchFrom(g, startX, startY, maxDistance, ignoreUnits, Tail(queue), visited,
                  validMoves)
  ELSE SearchFrom(g, startX, startY, maxDistance, ignoreUnits,
         IF Head(queue).dist < maxDistance
         THEN Tail(queue) \o SelectSeq(Neighbors(Head(queue)),
                                       LAMBDA n : isValidTile(g, n.x, n.y))
         ELSE Tail(queue),
         visited \cup {<<Head(queue).x, Head(queue).y>>},
         IF /\ Head(queue).dist <= maxDistance
            /\ isValidTile(g, Head(queue).x, Head(queue).y)
            /\ \/ ignoreUnits
               \/ ~isoIsOccupied(g, Head(queue).x, Head(queue).y)
               \/ (Head(queue).x = startX /\ Head(queue).y = startY)
         THEN Append(validMoves, Head(queue))
         ELSE validMoves)

\* IsometricGrid.calculateMovementRange(startX, startY, maxDistance, ignoreUnits)
isoCalculateMovementRange(g, startX, startY, maxDistance, ignoreUnits) ==
  SearchFrom(g, startX, startY, maxDistance, ignoreUnits,
             <<[x |-> startX, y |-> startY, dist |-> 0]>>, {}, << >>)

(***************************************************************************)
(* Character.js: GameSession.                                              *)
(***************************************************************************)
Initiative(p) == getModifier(p.character.dakshata)

\* p placed after every entry whose modifier is not smaller: the comparator
\* modB - modA under a stable sort
RECURSIVE InsertByInitiative(_, _)
InsertByInitiative(sorted, p) ==
  IF sorted = << >> THEN <<p>>
  ELSE IF Initiative(Head(sorted)) >= Initiative(p)
  THEN <<Head(sorted)>> \o InsertByInitiative(Tail(sorted), p)
  ELSE <<p>> \o sorted

RECURSIVE SortByInitiative(_, _)
SortByInitiative(parts, n) ==
  IF n = 0 THEN << >>
  ELSE InsertByInitiative(SortByInitiative(parts, n - 1), parts[n])

\* establishTurnOrder under a sort that is not stable: participants of equal
\* modifier come out in the reverse of their order of addition
establishTurnOrder_TiesReversed(parts) ==
  LET reversed == [k \in 1..Len(parts) |-> parts[Len(parts) + 1 - k]]
      sorted == SortByInitiative(reversed, Len(reversed))
  IN [turnOrder |-> [k \in 1..Len(sorted) |-> sorted[k].id], currentTurnIndex |-> 0]

establishTurnOrder(parts) ==
  LET sorted == SortByInitiative(parts, Len(parts))
  IN [turnOrder |-> [k \in 1..Len(sorted) |-> sorted[k].id], currentTurnIndex |-> 0]

\* checkCombatEnd that looks at the enemy side first
checkCombatEnd_EnemiesFirst(parts) ==
  LET playersActive == \E i \in 1..Len(parts) :
                         parts[i].team \in {"player", "ally"} /\ parts[i].status = "active"
      enemiesActive == \E i \in 1..Len(parts) :
                         parts[i].team = "enemy" /\ parts[i].status = "active"
  IN IF ~enemiesActive THEN "players_won"
     ELSE IF ~playersActive THEN "enemies_won"
     ELSE "null"

checkCombatEnd(parts) ==
  LET playersActive == \E i \in 1..Len(parts) :
                         parts[i].team \in {"player", "ally"} /\ parts[i].status = "active"
      enemiesActive == \E i \in 1..Len(parts) :
                         parts[i].team = "enemy" /\ parts[i].status = "active"
  IN IF ~playersActive THEN "enemies_won"
     ELSE IF ~enemiesActive THEN "players_won"
     ELSE "null"

(***************************************************************************)
(* Combat setup (createParticipants, initializeGameSystems, startCombat of *)
(* the mission scenes): three participants on a strip of the deck.         *)
(***************************************************************************)
\* MARAKATAS_ROSTER.kona
Kona ==
  CharacterStats("Kona", [level |-> 5, bala |-> 15, dakshata |-> 11, dhriti |-> 13,
                          buddhi |-> 9, prajna |-> 10, samkalpa |-> 12])

\* a level 1 character with low attributes, given through the options
Recruit ==
  CharacterStats("Recruit", [level |-> 1, bala |-> 6, dakshata |-> 0, dhriti |-> 1,
                             buddhi |-> 2, prajna |-> 12, samkalpa |-> 0])

\* the 'Ship Captain' of MISSIONS.merchant_ship_heist
ShipCaptain ==
  CharacterStats("Ship Captain", [level |-> 4, bala |-> 13, dakshata |-> 12, dhriti |-> 13,
                                  buddhi |-> 10, prajna |-> 10, samkalpa |-> 11])

\* where the enemy stands at setup: next to the recruit, or at the far end
EnemyStarts == {<<1, 1>>, <<MaxCoord, 0>>}

Roster(enemyStart) ==
  <<SessionCharacter(Kona, [id |-> "p1", team |-> "player", x |-> 0, y |-> 0,
                            movementSpeed |-> 4]),
    SessionCharacter(Recruit, [id |-> "p2", team |-> "player", x |-> 1, y |-> 0,
                               movementSpeed |-> 0]),
    SessionCharacter(ShipCaptain, [id |-> "e1", team |-> "enemy", x |-> enemyStart[1],
                                   y |-> enemyStart[2], movementSpeed |-> 3])>>

\* the result of an operation that is no executeAbility call
NoResult ==
  [success |-> FALSE, message |-> "", logEvents |-> << >>, affectedParticipants |-> << >>]

NoRequest == [actorId |-> "", abilityId |-> "", primaryTarget |-> [participantId |-> ""]]

\* createParticipants: this.gridSystem.placeUnit(participant, participant.x,
\* participant.y) for every participant, in order
RECURSIVE PlaceAll(_, _, _)
PlaceAll(g, parts, n) ==
  IF n = 0 THEN g
  ELSE placeUnit(PlaceAll(g, parts, n - 1), parts[n].id, parts[n].x, parts[n].y)

\* createParticipants: this.grid.placeUnit(participant, participant.x,
\* participant.y) for every participant, in order
RECURSIVE IsoPlaceAll(_, _, _)
IsoPlaceAll(g, parts, n) ==
  IF n = 0 THEN g
  ELSE isoPlaceUnit(IsoPlaceAll(g, parts, n - 1), parts[n].id, parts[n].x, parts[n].y)

\* what an operation returning nothing of its own returns
NoReturn == "undefined"

\* the turn of the session an operation was called in
Turn == [turnOrder |-> turnOrder, currentTurnIndex |-> currentTurnIndex, round |-> round]

Init ==
  /\ \E enemyStart \in EnemyStarts : participants = Roster(enemyStart)
  /\ turnOrder = establishTurnOrder(participants).turnOrder
  /\ currentTurnIndex = 0
  /\ round = 0
  /\ logEntries = << >>
  /\ gridSystem = PlaceAll(GridSystem(GridWidth, GridHeight), participants, Len(participants))
  /\ grid = IsoPlaceAll(IsometricGrid(GridWidth, GridHeight), participants, Len(participants))
  /\ last = [op |-> "setup", request |-> NoRequest, pre |-> participants,
             result |-> NoResult, returned |-> NoReturn, turn |-> Turn]

(***************************************************************************)
(* Operations.                                                             *)
(***************************************************************************)
\* A rejected executeAbility call is explored as the last step of its
\* behaviour: it returns before step 5, and what could follow it follows the
\* state before it as well.
Rejected == last.op = "executeAbility" /\ ~last.result.success

\* the dice of one application all show 1, or all show their highest face
FaceSeqs(abilityId) ==
  IF abilityId \in AbilityIds
  THEN LET diceSpec == parseDiceNotation(ABILITY_DATABASE[abilityId].damageDice)
       IN {[k \in 1..diceSpec.dice |-> 1], [k \in 1..diceSpec.dice |-> diceSpec.sides]}
  ELSE {<< >>}

\* every die showing 1
LowRolls == [k \in 1..3 |-> <<1, 1>>]

\* the dice are rolled in step 6 only, once per affected participant: the
\* rolls of a call are enumerated for as many participants as it affects
RollsFor(request, dry) ==
  IF dry.success
  THEN [1..Max(1, Len(dry.affectedParticipants)) -> FaceSeqs(request.abilityId)]
  ELSE {LowRolls}

RollsOf(parts, request) == RollsFor(request, executeAbility(parts, request, LowRolls))

\* AbilitySystem.executeAbility(request)
ExecuteAbility(actorId, abilityId, primaryTarget) ==
  LET request == [actorId |-> actorId, abilityId |-> abilityId,
                  primaryTarget |-> primaryTarget]
  IN /\ ~Rejected
     /\ \E rolls \in RollsOf(participants, request) :
          \E r \in {executeAbility(participants, request, rolls)} :
            /\ r.success => Len(logEntries) < MaxLog
            /\ participants' = r.participants
            /\ logEntries' = IF r.success THEN Append(logEntries, "ability_used")
                             ELSE logEntries
            /\ last' = [op |-> "executeAbility", request |-> request,
                        pre |-> participants,
                        result |-> [success |-> r.success, message |-> r.message,
                                    logEvents |-> r.logEvents,
                                    affectedParticipants |-> r.affectedParticipants],
                        returned |-> NoReturn, turn |-> Turn]
     /\ UNCHANGED <<turnOrder, currentTurnIndex, round, gridSystem, grid>>

\* nextTurn that resets every participant on every call
NextTurn_AlwaysResets ==
  LET wraps == currentTurnIndex + 1 >= Len(turnOrder)
  IN /\ ~Rejected
     /\ wraps => round < MaxRound
     /\ currentTurnIndex' = IF wraps THEN 0 ELSE currentTurnIndex + 1
     /\ round' = IF wraps THEN round + 1 ELSE round
     /\ participants' = [i \in 1..Len(participants) |-> reset(participants[i])]
     /\ last' = [op |-> "nextTurn", request |-> NoRequest, pre |-> participants,
                 result |-> NoResult, returned |-> NoReturn, turn |-> Turn]
     /\ UNCHANGED <<turnOrder, logEntries, gridSystem, grid>>

\* GameSession.nextTurn()
NextTurn ==
  LET wraps == currentTurnIndex + 1 >= Len(turnOrder)
  IN /\ ~Rejected
     /\ wraps => round < MaxRound
     /\ currentTurnIndex' = IF wraps THEN 0 ELSE currentTurnIndex + 1
     /\ round' = IF wraps THEN round + 1 ELSE round
     /\ participants' = IF wraps
                        THEN [i \in 1..Len(participants) |-> reset(participants[i])]
                        ELSE participants
     /\ last' = [op |-> "nextTurn", request |-> NoRequest, pre |-> participants,
                 result |-> NoResult, returned |-> NoReturn, turn |-> Turn]
     /\ UNCHANGED <<turnOrder, logEntries, gridSystem, grid>>

\* GameSession.addParticipant(sessionCharacter)
AddParticipant(sessionCharacter) ==
  /\ participants' = Append(participants, sessionCharacter)
  /\ last' = [op |-> "addParticipant", request |-> [participantId |-> sessionCharacter.id],
              pre |-> participants, result |-> NoResult, returned |-> NoReturn,
              turn |-> Turn]
  /\ UNCHANGED <<turnOrder, currentTurnIndex, round, logEntries, gridSystem, grid>>

\* GameSession.establishTurnOrder()
EstablishTurnOrder ==
  \E r \in {establishTurnOrder(participants)} :
    /\ turnOrder' = r.turnOrder
    /\ currentTurnIndex' = r.currentTurnIndex
    /\ last' = [op |-> "establishTurnOrder", request |-> NoRequest, pre |-> participants,
                result |-> NoResult, returned |-> NoReturn, turn |-> Turn]
    /\ UNCHANGED <<participants, round, logEntries, gridSystem, grid>>

\* GameSession.removeParticipant(participantId), on the participants parts
\* and the turn order order
removeParticipant(parts, order, participantId) ==
  [participants |-> SelectSeq(parts, LAMBDA p : p.id # participantId),
   turnOrder |-> SelectSeq(order, LAMBDA id : id # participantId)]

\* GameSession.getCurrentActor(): the id of the participant found, 'null'
\* for an empty turn order, 'undefined' when find() finds none
getCurrentActor(parts, order, index) ==
  IF Len(order) = 0 THEN "null"
  ELSE IF index + 1 \in DOMAIN order /\ FindIndex(parts, order[index + 1]) # 0
       THEN order[index + 1]
       ELSE "undefined"

\* GameSession.removeParticipant(participantId)
RemoveParticipant(participantId) ==
  \E r \in {removeParticipant(participants, turnOrder, participantId)} :
    /\ participants' = r.participants
    /\ turnOrder' = r.turnOrder
    /\ last' = [op |-> "removeParticipant", request |-> [participantId |-> participantId],
                pre |-> participants, result |-> NoResult, returned |-> NoReturn,
                turn |-> Turn]
    /\ UNCHANGED <<currentTurnIndex, round, logEntries, gridSystem, grid>>

\* GameSession.checkCombatEnd()
CheckCombatEnd ==
  /\ ~Rejected
  /\ last' = [op |-> "checkCombatEnd", request |-> NoRequest, pre |-> participants,
              result |-> NoResult, returned |-> checkCombatEnd(participants),
              turn |-> Turn]
  /\ UNCHANGED <<participants, turnOrder, currentTurnIndex, round, logEntries, gridSystem, grid>>

\* an operation called on one SessionCharacter of the roster
CharacterOp(op, participantId, resourceType, amount, self, ret) ==
  LET i == FindIndex(participants, participantId)
  IN /\ ~Rejected
     /\ i # 0
     /\ participants' = [participants EXCEPT ![i] = self]
     /\ last' = [op |-> op,
                 request |-> [participantId |-> participantId,
                              resourceType |-> resourceType, amount |-> amount],
                 pre |-> participants, result |-> NoResult, returned |-> ret,
                 turn |-> Turn]
     /\ UNCHANGED <<turnOrder, currentTurnIndex, round, logEntries, gridSystem, grid>>

\* SessionCharacter.takeDamage(amount)
TakeDamage(participantId, amount) ==
  LET i == FindIndex(participants, participantId)
  IN /\ i # 0
     /\ participants[i].damageReceived + amount <= MaxDamageReceived
     /\ \E r \in {takeDamage(participants[i], amount)} :
          CharacterOp("takeDamage", participantId, "prana", amount, r.self, r.ret)

\* SessionCharacter.heal(amount)
Heal(participantId, amount) ==
  LET i == FindIndex(participants, participantId)
  IN /\ i # 0
     /\ \E r \in {heal(participants[i], amount)} :
          CharacterOp("heal", participantId, "prana", amount, r.self, r.ret)

\* SessionCharacter.spendResource(resourceType, amount)
SpendResource(participantId, resourceType, amount) ==
  LET i == FindIndex(participants, participantId)
  IN /\ i # 0
     /\ \E r \in {spendResource(participants[i], resourceType, amount)} :
          CharacterOp("spendResource", participantId, resourceType, amount, r.self, r.ret)

\* SessionCharacter.restoreResource(resourceType, amount)
RestoreResource(participantId, resourceType, amount) ==
  LET i == FindIndex(participants, participantId)
  IN /\ i # 0
     /\ CharacterOp("restoreResource", participantId, resourceType, amount,
                    restoreResource(participants[i], resourceType, amount), NoReturn)

\* an operation on the status effects of one SessionCharacter of the roster
EffectOp(op, participantId, effectName, duration, self) ==
  LET i == FindIndex(participants, participantId)
  IN /\ ~Rejected
     /\ i # 0
     /\ participants' = [participants EXCEPT ![i] = self]
     /\ last' = [op |-> op,
                 request |-> [participantId |-> participantId,
                              effectName |-> effectName, duration |-> duration],
                 pre |-> participants, result |-> NoResult, returned |-> NoReturn, turn |-> Turn]
     /\ UNCHANGED <<turnOrder, currentTurnIndex, round, logEntries, gridSystem, grid>>

\* SessionCharacter.addStatusEffect(effectName, duration)
AddStatusEffect(participantId, effectName, duration) ==
  LET i == FindIndex(participants, participantId)
  IN /\ i # 0
     /\ EffectOp("addStatusEffect", participantId, effectName, duration,
                 addStatusEffect(participants[i], effectName, duration))

\* SessionCharacter.removeStatusEffect(effectName)
RemoveStatusEffect(participantId, effectName) ==
  LET i == FindIndex(participants, participantId)
  IN /\ i # 0
     /\ EffectOp("removeStatusEffect", participantId, effectName, 0,
                 removeStatusEffect(participants[i], effectName))

\* SessionCharacter.reset()
Reset(participantId) ==
  LET i == FindIndex(participants, participantId)
  IN /\ i # 0
     /\ EffectOp("reset", participantId, "", 0, reset(participants[i]))

(***************************************************************************)
(* The requests enumerated, and the specifications.                        *)
(***************************************************************************)
\* the ids of the roster, and one that names nobody
ParticipantIds == {"p1", "p2", "e1", "nobody"}

UnitTargets == {[participantId |-> id] : id \in ParticipantIds}

\* the cells of the deck row, and the cell the enemy may start on
Cells == {<<x, 0>> : x \in 0..MaxCoord} \cup {<<1, 1>>}

GroundTargets == {[x |-> c[1], y |-> c[2]] : c \in Cells}

\* a ground target without its y
PartialTargets == {[x |-> 0]}

\* Single-target combat within one turn: the recruit and the captain act.
CombatActorIds == {"p2", "e1", "nobody"}

CombatAbilityIds ==
  {"basic_strike", "power_attack", "first_aid", "precision_shot", "unknown_ability"}

CombatTargets == UnitTargets \cup {[x |-> 1, y |-> 0]}

CombatCall ==
  \E actorId \in CombatActorIds, abilityId \in CombatAbilityIds,
     target \in CombatTargets :
    ExecuteAbility(actorId, abilityId, target)

NextCombat == CombatCall

SpecCombat == Init /\ [][NextCombat]_vars

\* Movement: Kona and the captain move along the row, turns pass.
MoveActorIds == {"p1", "e1"}

MoveAbilityIds == {"basic_move", "quick_movement", "tactical_repositioning"}

\* the near end, the middle and the far end of the row
MoveCells == {<<0, 0>>, <<2, 0>>, <<MaxCoord, 0>>}

MoveTargets ==
  {[x |-> c[1], y |-> c[2]] : c \in MoveCells} \cup PartialTargets
    \cup {[participantId |-> "e1"]}

MoveCall ==
  \E actorId \in MoveActorIds, abilityId \in MoveAbilityIds, target \in MoveTargets :
    ExecuteAbility(actorId, abilityId, target)

NextMove == MoveCall \/ NextTurn

SpecMove == Init /\ [][NextMove]_vars

\* Area effects: Kona shoots and shouts at cells of the deck, and the recruit
\* may have been struck down.
AreaActorIds == {"p1"}

AreaAbilityIds == {"scatter_shot", "intimidating_shout"}

AreaTargets == GroundTargets \cup PartialTargets \cup {[participantId |-> "e1"]}

\* a blow that downs the recruit
FatalBlow == 30

AreaCall ==
  \E actorId \in AreaActorIds, abilityId \in AreaAbilityIds, target \in AreaTargets :
    ExecuteAbility(actorId, abilityId, target)

AreaDamage == TakeDamage("p2", FatalBlow)

NextArea == AreaCall \/ AreaDamage

SpecArea == Init /\ [][NextArea]_vars

\* The recruit's pools under the SessionCharacter operations and the
\* recruit's first aid.
OpAmounts == {0, 5, FatalBlow}

OpResourceTypes == {"prana", "tapas"}

CharDamage == \E amount \in OpAmounts : TakeDamage("p2", amount)

CharHeal == \E amount \in OpAmounts : Heal("p2", amount)

CharSpend ==
  \E resourceType \in OpResourceTypes, amount \in OpAmounts :
    SpendResource("p2", resourceType, amount)

CharRestore ==
  \E resourceType \in OpResourceTypes, amount \in OpAmounts :
    RestoreResource("p2", resourceType, amount)

CharCall == ExecuteAbility("p2", "first_aid", [participantId |-> "p2"])

NextChar == CharDamage \/ CharHeal \/ CharSpend \/ CharRestore \/ CharCall

SpecChar == Init /\ [][NextChar]_vars

\* The recruit alone acts, with abilities of every action type, target type
\* and resource, while it may be struck down, healed and drained of Tapas
\* and Maya.
ActorAbilityIds ==
  {"basic_move", "defensive_stance", "shield_ward", "intimidating_shout",
   "power_attack", "scatter_shot", "healing_herbs"}

ActorTargets ==
  {[participantId |-> "p2"], [participantId |-> "e1"], [x |-> 2, y |-> 0]}

\* the amount drained at once
Dose == 5

ActorCall ==
  \E abilityId \in ActorAbilityIds, target \in ActorTargets :
    ExecuteAbility("p2", abilityId, target)

ActorDamage == TakeDamage("p2", FatalBlow)

ActorHeal == Heal("p2", FatalBlow)

ActorSpend == \E resourceType \in {"tapas", "maya"} : SpendResource("p2", resourceType, Dose)

NextActor == ActorCall \/ ActorDamage \/ ActorHeal \/ ActorSpend

SpecActor == Init /\ [][NextActor]_vars

\* The recruit's four pools under spendResource alone, with a kind that is
\* none of the four.
PoolKinds == {"prana", "tapas", "maya", "speed", "gold"}

PoolAmounts == {0, 2, Dose}

PoolSpend ==
  \E resourceType \in PoolKinds, amount \in PoolAmounts :
    SpendResource("p2", resourceType, amount)

NextPools == PoolSpend

SpecPools == Init /\ [][NextPools]_vars

\* Status effects and the turn-start reset: the recruit is given and relieved
\* of effects, shouts, Kona moves, and both are reset.
MaxDuration == 2

EffectNames == {"frightened", "defended"}

EffectsAdd ==
  \E effectName \in EffectNames, duration \in 1..MaxDuration :
    AddStatusEffect("p2", effectName, duration)

EffectsRemove == \E effectName \in EffectNames : RemoveStatusEffect("p2", effectName)

EffectsReset == \E participantId \in {"p1", "p2"} : Reset(participantId)

EffectsCall ==
  \/ ExecuteAbility("p2", "intimidating_shout", [x |-> 2, y |-> 0])
  \/ ExecuteAbility("p1", "basic_move", [x |-> 2, y |-> 0])

NextEffects == EffectsAdd \/ EffectsRemove \/ EffectsReset \/ EffectsCall

SpecEffects == Init /\ [][NextEffects]_vars

\* A session from its construction: participants are added, the turn order is
\* established, turns pass.
MaxParticipants == 3

\* a character of Dakshata 9, given through the options
Deckhand ==
  CharacterStats("Deckhand", [level |-> 1, bala |-> 10, dakshata |-> 9, dhriti |-> 10,
                              buddhi |-> 10, prajna |-> 10, samkalpa |-> 10])

\* who may join: Kona and the recruit (modifier 0), the captain (1) and the
\* deckhand (-1)
Candidates ==
  {Roster(<<1, 1>>)[k] : k \in 1..3}
    \cup {SessionCharacter(Deckhand, [id |-> "e2", team |-> "enemy", x |-> 2, y |-> 1,
                                      movementSpeed |-> 0])}

\* new GameSession(sessionId)
InitOrder ==
  /\ participants = << >>
  /\ turnOrder = << >>
  /\ currentTurnIndex = 0
  /\ round = 0
  /\ logEntries = << >>
  /\ gridSystem = GridSystem(GridWidth, GridHeight)
  /\ grid = IsometricGrid(GridWidth, GridHeight)
  /\ last = [op |-> "setup", request |-> NoRequest, pre |-> participants,
             result |-> NoResult, returned |-> NoReturn, turn |-> Turn]

OrderAdd ==
  \E sessionCharacter \in Candidates :
    /\ Len(participants) < MaxParticipants
    /\ FindIndex(participants, sessionCharacter.id) = 0
    /\ AddParticipant(sessionCharacter)

NextOrder == OrderAdd \/ EstablishTurnOrder \/ NextTurn

SpecOrder == InitOrder /\ [][NextOrder]_vars

\* A session whose participants also leave.
SessionRemove ==
  \E sessionCharacter \in Candidates : RemoveParticipant(sessionCharacter.id)

NextSession == OrderAdd \/ EstablishTurnOrder \/ NextTurn \/ SessionRemove

SpecSession == InitOrder /\ [][NextSession]_vars

\* The board of MissionScene: units are set on cells and taken off them, and
\* the movement range is asked for from every cell.
BoardCells == {<<5, 4>>, <<4, 5>>, <<0, 0>>}

AllCells == (0..(GridWidth - 1)) \X (0..(GridHeight - 1))

\* GridSystem.placeUnit(unit, gridX, gridY)
PlaceUnit(unit, gridX, gridY) ==
  /\ gridSystem' = placeUnit(gridSystem, unit, gridX, gridY)
  /\ last' = [op |-> "GridSystem.placeUnit",
              request |-> [unit |-> unit, gridX |-> gridX, gridY |-> gridY],
              pre |-> participants, result |-> NoResult, returned |-> NoReturn,
              turn |-> Turn]
  /\ UNCHANGED <<participants, turnOrder, currentTurnIndex, round, logEntries, grid>>

\* GridSystem.removeUnit(gridX, gridY)
RemoveUnit(gridX, gridY) ==
  /\ gridSystem' = removeUnit(gridSystem, gridX, gridY)
  /\ last' = [op |-> "GridSystem.removeUnit",
              request |-> [gridX |-> gridX, gridY |-> gridY],
              pre |-> participants, result |-> NoResult, returned |-> NoReturn,
              turn |-> Turn]
  /\ UNCHANGED <<participants, turnOrder, currentTurnIndex, round, logEntries, grid>>

\* GridSystem.calculateMovementRange(gridX, gridY, range)
CalculateMovementRange(gridX, gridY, range) ==
  /\ last' = [op |-> "GridSystem.calculateMovementRange",
              request |-> [gridX |-> gridX, gridY |-> gridY, range |-> range],
              pre |-> participants, result |-> NoResult,
              returned |-> calculateMovementRange(gridSystem, gridX, gridY, range),
              turn |-> Turn]
  /\ UNCHANGED <<participants, turnOrder, currentTurnIndex, round, logEntries,
                 gridSystem, grid>>

BoardPlace == \E c \in BoardCells : PlaceUnit("unit", c[1], c[2])

BoardRemove == \E c \in BoardCells : RemoveUnit(c[1], c[2])

\* the corners, the middles of the sides and the middle of the board
BoardStarts == {0, 4, GridWidth - 1} \X {0, 4, GridHeight - 1}

BoardRange ==
  \E c \in BoardStarts, range \in 0..MaxRange : CalculateMovementRange(c[1], c[2], range)

NextBoard == BoardPlace \/ BoardRemove \/ BoardRange

SpecBoard == InitOrder /\ [][NextBoard]_vars

\* The board of MissionSceneIsometric: units are placed and moved, and the
\* movement range is asked for.
IsoUnits == {"u1", "u2"}

\* IsometricGrid.placeUnit(participant, gridX, gridY)
IsoPlaceUnit(participantId, gridX, gridY) ==
  /\ grid' = isoPlaceUnit(grid, participantId, gridX, gridY)
  /\ last' = [op |-> "IsometricGrid.placeUnit",
              request |-> [participantId |-> participantId, gridX |-> gridX,
                           gridY |-> gridY],
              pre |-> participants, result |-> NoResult, returned |-> NoReturn,
              turn |-> Turn]
  /\ UNCHANGED <<participants, turnOrder, currentTurnIndex, round, logEntries,
                 gridSystem>>

\* IsometricGrid.moveUnit(participantId, newX, newY)
MoveUnit(participantId, newX, newY) ==
  /\ grid' = moveUnit(grid, participantId, newX, newY)
  /\ last' = [op |-> "IsometricGrid.moveUnit",
              request |-> [participantId |-> participantId, gridX |-> newX,
                           gridY |-> newY],
              pre |-> participants, result |-> NoResult, returned |-> NoReturn,
              turn |-> Turn]
  /\ UNCHANGED <<participants, turnOrder, currentTurnIndex, round, logEntries,
                 gridSystem>>

\* IsometricGrid.calculateMovementRange(startX, startY, maxDistance, ignoreUnits)
IsoCalculateMovementRange(startX, startY, maxDistance, ignoreUnits) ==
  /\ last' = [op |-> "IsometricGrid.calculateMovementRange",
              request |-> [startX |-> startX, startY |-> startY,
                           maxDistance |-> maxDistance, ignoreUnits |-> ignoreUnits],
              pre |-> participants, result |-> NoResult,
              returned |-> isoCalculateMovementRange(grid, startX, startY, maxDistance,
                                                     ignoreUnits),
              turn |-> Turn]
  /\ UNCHANGED <<participants, turnOrder, currentTurnIndex, round, logEntries,
                 gridSystem, grid>>

\* a unit not yet on the board is placed
IsoPlace ==
  \E participantId \in IsoUnits, c \in BoardCells :
    /\ participantId \notin DOMAIN grid.units
    /\ IsoPlaceUnit(participantId, c[1], c[2])

IsoMove ==
  \E participantId \in IsoUnits, c \in BoardCells : MoveUnit(participantId, c[1], c[2])

IsoRange ==
  \E c \in BoardStarts, maxDistance \in 0..MaxRange, ignoreUnits \in BOOLEAN :
    IsoCalculateMovementRange(c[1], c[2], maxDistance, ignoreUnits)

NextIso == IsoPlace \/ IsoMove \/ IsoRange

SpecIso == InitOrder /\ [][NextIso]_vars

\* The isometric mission scene: the player clicks cells to move the current
\* actor, abilities move their actors, turns pass.
\* MissionSceneIsometric.handleMovementClick(pointer), the pointer on the cell
\* (gridX, gridY), and the moveCharacter it ends with
HandleMovementClick(gridX, gridY) ==
  LET actor == FindIndex(participants,
                         getCurrentActor(participants, turnOrder, currentTurnIndex))
      distance == Abs(participants[actor].x - gridX) + Abs(participants[actor].y - gridY)
  IN /\ ~Rejected
     /\ actor # 0
     /\ participants[actor].team = "player"
     /\ isValidTile(grid, gridX, gridY)
     /\ distance <= participants[actor].remainingSpeed
     /\ ~isoIsOccupied(grid, gridX, gridY)
     /\ \E moved \in {moveTo(participants[actor], gridX, gridY).self} :
          participants' = [participants EXCEPT
                             ![actor] = spendResource(moved, "speed", distance).self]
     /\ grid' = moveUnit(grid, participants[actor].id, gridX, gridY)
     /\ last' = [op |-> "handleMovementClick",
                 request |-> [participantId |-> participants[actor].id,
                              gridX |-> gridX, gridY |-> gridY],
                 pre |-> participants, result |-> NoResult, returned |-> NoReturn,
                 turn |-> Turn]
     /\ UNCHANGED <<turnOrder, currentTurnIndex, round, logEntries, gridSystem>>

SceneClick == \E c \in MoveCells \cup {<<1, 1>>} : HandleMovementClick(c[1], c[2])

\* Kona's teleports, to the same cells
SceneCall ==
  \E abilityId \in {"basic_move", "quick_movement"}, c \in MoveCells :
    ExecuteAbility("p1", abilityId, [x |-> c[1], y |-> c[2]])

NextScene == SceneClick \/ SceneCall \/ NextTurn

SpecScene == Init /\ [][NextScene]_vars

\* Characters of every make: one is constructed from options and joins the
\* session, and its pools are recalculated.
\* the levels given in the options (0: none given)
Levels == {0, 1, 3}

\* the attribute values given in the options (0: none given)
AttributeValues == {0, -12, 1, 9, 13}

\* CharacterStats.recalculatePools() on the character of a participant
RecalculatePools(participantId) ==
  LET i == FindIndex(participants, participantId)
  IN /\ i # 0
     /\ participants' = [participants EXCEPT
                           ![i].character = recalculatePools(participants[i].character)]
     /\ last' = [op |-> "recalculatePools", request |-> [participantId |-> participantId],
                 pre |-> participants, result |-> NoResult, returned |-> NoReturn,
                 turn |-> Turn]
     /\ UNCHANGED <<turnOrder, currentTurnIndex, round, logEntries, gridSystem, grid>>

StatsNew ==
  \E level \in Levels, bala \in AttributeValues, dakshata \in AttributeValues,
     dhriti \in AttributeValues, buddhi \in AttributeValues, prajna \in AttributeValues :
    /\ participants = << >>
    /\ AddParticipant(SessionCharacter(
         CharacterStats("Recruit", [level |-> level, bala |-> bala, dakshata |-> dakshata,
                                    dhriti |-> dhriti, buddhi |-> buddhi,
                                    prajna |-> prajna, samkalpa |-> 0]),
         [id |-> "p1", team |-> "player", x |-> 0, y |-> 0, movementSpeed |-> 0]))

StatsRecalculate == RecalculatePools("p1")

NextStats == StatsNew \/ StatsRecalculate

SpecStats == InitOrder /\ [][NextStats]_vars

\* Sides: three level 1 characters next to each other, the first of the
\* player's side as 'player' or as 'ally', the second a 'player', the third an
\* 'enemy'; they are wounded and struck down, act, and the end of the combat
\* is looked for.
TeamRoster(team) ==
  <<SessionCharacter(Recruit, [id |-> "p1", team |-> team, x |-> 0, y |-> 0,
                               movementSpeed |-> 0]),
    SessionCharacter(Recruit, [id |-> "p2", team |-> "player", x |-> 1, y |-> 0,
                               movementSpeed |-> 0]),
    SessionCharacter(Recruit, [id |-> "e1", team |-> "enemy", x |-> 1, y |-> 1,
                               movementSpeed |-> 0])>>

InitTeams ==
  /\ \E team \in {"player", "ally"} : participants = TeamRoster(team)
  /\ turnOrder = establishTurnOrder(participants).turnOrder
  /\ currentTurnIndex = 0
  /\ round = 0
  /\ logEntries = << >>
  /\ gridSystem = PlaceAll(GridSystem(GridWidth, GridHeight), participants, Len(participants))
  /\ grid = IsoPlaceAll(IsometricGrid(GridWidth, GridHeight), participants, Len(participants))
  /\ last = [op |-> "setup", request |-> NoRequest, pre |-> participants,
             result |-> NoResult, returned |-> NoReturn, turn |-> Turn]

\* a blow that leaves a level 1 character with a few Prana
Wound == 20

\* the player p2 strikes and tends p1 and shoots at its own cell; p1 strikes p2
TeamsCall ==
  \/ \E abilityId \in {"basic_strike", "first_aid"} :
       ExecuteAbility("p2", abilityId, [participantId |-> "p1"])
  \/ ExecuteAbility("p2", "scatter_shot", [x |-> 1, y |-> 0])
  \/ ExecuteAbility("p1", "basic_strike", [participantId |-> "p2"])

TeamsDamage ==
  \/ \E participantId \in {"p1", "p2"} : TakeDamage(participantId, Wound)
  \/ \E participantId \in {"p2", "e1"} : TakeDamage(participantId, FatalBlow)

NextTeams == TeamsCall \/ TeamsDamage \/ CheckCombatEnd \/ NextTurn

SpecTeams == InitTeams /\ [][NextTeams]_vars

(***************************************************************************)
(* Properties.  They are stated over `last`: the request of the last       *)
(* operation, the roster before it (last.pre), its result, and the roster  *)
(* after it (participants).                                                *)
(***************************************************************************)
Called == last.op = "executeAbility"

Succeeded == Called /\ last.result.success

Failed == Called /\ ~last.result.success

\* the index of the last call's actor in the roster, 0 when it names nobody
LastActor == FindIndex(last.pre, last.request.actorId)

\* the last call's ability; asked only when the catalog holds it
LastAbility == ABILITY_DATABASE[last.request.abilityId]

\* the last call has an actor and an ability
Loaded == Called /\ LastActor # 0 /\ last.request.abilityId \in AbilityIds

\* the index of the participant the last call targets, 0 when none
LastTarget ==
  IF Has(last.request.primaryTarget, "participantId")
  THEN FindIndex(last.pre, last.request.primaryTarget.participantId)
  ELSE 0

\* the last call names a cell
LastHasCell ==
  Has(last.request.primaryTarget, "x") /\ Has(last.request.primaryTarget, "y")

\* the distance from the actor, before the call, to the cell the call names
LastCellDistance ==
  calculateDistance(last.pre[LastActor].x, last.pre[LastActor].y,
                    last.request.primaryTarget.x, last.request.primaryTarget.y)

\* the distance between the actor and the target participant before the call
LastTargetDistance ==
  calculateDistance(last.pre[LastActor].x, last.pre[LastActor].y,
                    last.pre[LastTarget].x, last.pre[LastTarget].y)

\* the fields of a participant that a failed call must leave alone
SameState(p, q) ==
  /\ p.currentPrana = q.currentPrana
  /\ p.currentTapas = q.currentTapas
  /\ p.currentMaya = q.currentMaya
  /\ p.remainingSpeed = q.remainingSpeed
  /\ p.actions = q.actions
  /\ p.bonusActions = q.bonusActions
  /\ p.reactions = q.reactions
  /\ p.x = q.x
  /\ p.y = q.y
  /\ p.status = q.status
  /\ p.statusEffects = q.statusEffects
  /\ p.damageDealt = q.damageDealt
  /\ p.damageReceived = q.damageReceived

RosterUntouched ==
  /\ Len(participants) = Len(last.pre)
  /\ \A i \in 1..Len(participants) : SameState(participants[i], last.pre[i])

\* the action counters and the pools of a participant
SameEconomy(p, q) ==
  /\ p.actions = q.actions
  /\ p.bonusActions = q.bonusActions
  /\ p.reactions = q.reactions
  /\ p.currentPrana = q.currentPrana
  /\ p.currentTapas = q.currentTapas
  /\ p.currentMaya = q.currentMaya
  /\ p.remainingSpeed = q.remainingSpeed

\* C1: whenever executeAbility returns success = false, every participant's
\* pools, remaining speed, action counters, position, status, status effects
\* and damage counters are what they were before the call.
C1_FailureLeavesStateUntouched == Failed => RosterUntouched

\* C1 witness: a call rejected at the last validation stage, the custom
\* requirements, after use and targeting were validated.
C1_Witness ==
  /\ Failed
  /\ Loaded
  /\ last.result.message = "Requires Prajna"
  /\ validateAbilityUse(last.pre[LastActor], LastAbility).valid

\* C2: every participant's Prana, Tapas and Maya stay between 0 and their
\* ceilings in every state reachable from combat setup.
C2_ResourceBounds ==
  \A i \in 1..Len(participants) :
    LET p == participants[i]
    IN /\ 0 <= p.currentPrana /\ p.currentPrana <= p.character.maxPrana
       /\ 0 <= p.currentTapas /\ p.currentTapas <= p.character.maxTapas
       /\ 0 <= p.currentMaya /\ p.currentMaya <= p.character.maxMaya

\* C3: a participant's status is 'downed' if and only if its Prana is 0.
C3_DownedIffNoPrana ==
  \A i \in 1..Len(participants) :
    (participants[i].status = "downed") <=> (participants[i].currentPrana = 0)

\* the counter that the action type of an ability draws on
Counter(p, actionType) ==
  CASE actionType = "action"       -> p.actions
    [] actionType = "bonus_action" -> p.bonusActions
    [] actionType = "reaction"     -> p.reactions
    [] OTHER                       -> 0

CountedActionTypes == {"action", "bonus_action", "reaction"}

\* C4: a successful executeAbility of an action, bonus-action or reaction
\* ability lowers the actor's matching counter by exactly 1, and the call
\* fails when that counter is 0.
C4_ActionEconomy ==
  (Loaded /\ LastAbility.actionType \in CountedActionTypes) =>
    LET before == Counter(last.pre[LastActor], LastAbility.actionType)
        after  == Counter(participants[LastActor], LastAbility.actionType)
    IN /\ last.result.success => after = before - 1
       /\ before = 0 => ~last.result.success

\* the last call is an enemy- or ally-targeted ability with a numeric range,
\* used by a participant on a participant
UnitCall ==
  /\ Loaded
  /\ LastAbility.targetType \in {"enemy", "ally"}
  /\ LastAbility.range # RangeSpeed
  /\ LastTarget # 0

OutOfRangeMessage == "Target out of range"

\* out of range: the call fails and neither the actor's counters and pools
\* nor the target's Prana change
RejectedCleanly ==
  /\ ~last.result.success
  /\ SameEconomy(participants[LastActor], last.pre[LastActor])
  /\ participants[LastTarget].currentPrana = last.pre[LastTarget].currentPrana

\* C5 as stated: beyond the range the call fails with the out-of-range
\* message and spends nothing; within the range the range check does not
\* reject it.
C5_OutOfRangeAsStated ==
  UnitCall =>
    IF LastTargetDistance > LastAbility.range
    THEN RejectedCleanly /\ last.result.message = OutOfRangeMessage
    ELSE last.result.message # OutOfRangeMessage

\* C5: beyond the range the call fails and spends nothing, and its message
\* is the out-of-range message whenever the actor passes the validation of
\* the ability's use, which comes first; within the range the range check
\* does not reject the call.
C5_OutOfRangeFailsCleanly ==
  UnitCall =>
    IF LastTargetDistance > LastAbility.range
    THEN /\ RejectedCleanly
         /\ validateAbilityUse(last.pre[LastActor], LastAbility).valid
              => last.result.message = OutOfRangeMessage
    ELSE last.result.message # OutOfRangeMessage

\* C5 witness: basic_strike (range 1) against a participant 2 or more cells
\* away, rejected as out of range.
C5_Witness ==
  /\ UnitCall
  /\ last.request.abilityId = "basic_strike"
  /\ LastTargetDistance > 1
  /\ last.result.message = OutOfRangeMessage
  /\ ~last.result.success

\* the last call is a successful basic_move to a cell
MovedByBasicMove ==
  /\ Loaded
  /\ last.request.abilityId = "basic_move"
  /\ last.result.success

\* C6: a successful basic_move puts the actor no farther from its old
\* position than its remaining speed before the call.
C6_BasicMoveWithinSpeed ==
  MovedByBasicMove =>
    calculateDistance(last.pre[LastActor].x, last.pre[LastActor].y,
                      participants[LastActor].x, participants[LastActor].y)
      <= last.pre[LastActor].remainingSpeed

\* the last call resolved a teleport ability funded by speed
SpeedTeleport ==
  /\ Loaded
  /\ LastAbility.effectType = "teleport"
  /\ LastAbility.resourceType = "speed"
  /\ LastHasCell

\* C7: a resolved speed-funded teleport over distance d leaves the actor on
\* the destination with d less remaining speed when d <= remainingSpeed, and
\* otherwise leaves position and remaining speed alone and logs one event,
\* of type 'error'.
C7_TeleportPaysDistance ==
  (SpeedTeleport /\ last.result.success) =>
    LET before == last.pre[LastActor]
        after  == participants[LastActor]
        d      == LastCellDistance
    IN IF d <= before.remainingSpeed
       THEN /\ after.x = last.request.primaryTarget.x
            /\ after.y = last.request.primaryTarget.y
            /\ after.remainingSpeed = before.remainingSpeed - d
            /\ after.remainingSpeed >= 0
       ELSE /\ after.x = before.x
            /\ after.y = before.y
            /\ after.remainingSpeed = before.remainingSpeed
            /\ Len(last.result.logEvents) = 1
            /\ last.result.logEvents[1].eventType = "error"

\* C7 witness: a speed-funded teleport over 2 or more cells that was paid.
C7_Witness ==
  /\ SpeedTeleport
  /\ last.result.success
  /\ LastCellDistance >= 2
  /\ LastCellDistance <= last.pre[LastActor].remainingSpeed
  /\ last.result.logEvents[1].eventType = "teleport"

\* C8: a speed-funded teleport to a cell farther than the actor's remaining
\* speed returns success = false with a message and changes nothing.
C8_UnaffordableTeleportFails ==
  (SpeedTeleport /\ LastCellDistance > last.pre[LastActor].remainingSpeed) =>
    /\ ~last.result.success
    /\ last.result.message # ""
    /\ RosterUntouched

\* the last call is a successful ground-targeted area ability
AreaResolved ==
  /\ Loaded
  /\ last.result.success
  /\ LastAbility.targetType = "ground"
  /\ LastAbility.effectType \in {"damage", "heal", "status"}
  /\ LastHasCell

\* the participants that stood, not downed, within the radius of the cell
InArea ==
  {i \in 1..Len(last.pre) :
     /\ last.pre[i].status # "downed"
     /\ calculateDistance(last.request.primaryTarget.x, last.request.primaryTarget.y,
                          last.pre[i].x, last.pre[i].y) <= LastAbility.effectRadius}

\* the events of the last call that name the participant as their target
EventsOn(i) ==
  {k \in 1..Len(last.result.logEvents) :
     last.result.logEvents[k].target = last.pre[i].character.name}

\* the effect of the last call's ability shows on participant i
Affected(i) ==
  /\ Cardinality(EventsOn(i)) = 1
  /\ LastAbility.effectType = "damage" =>
       participants[i].damageReceived # last.pre[i].damageReceived
  /\ LastAbility.effectType = "status" =>
       FindEffect(participants[i].statusEffects, LastAbility.statusEffect) # 0

\* nothing was applied to participant i
Spared(i) ==
  /\ EventsOn(i) = {}
  /\ participants[i].currentPrana = last.pre[i].currentPrana
  /\ participants[i].status = last.pre[i].status
  /\ participants[i].statusEffects = last.pre[i].statusEffects
  /\ participants[i].damageReceived = last.pre[i].damageReceived

\* C9: a successful ground-targeted area ability applies its effect once to
\* every participant that is not downed and within the radius of the cell,
\* to nobody else, and affectedParticipants holds exactly their ids.
C9_AreaHitsActiveInRadius ==
  AreaResolved =>
    /\ \A i \in 1..Len(last.pre) : IF i \in InArea THEN Affected(i) ELSE Spared(i)
    /\ Len(last.result.affectedParticipants) = Cardinality(InArea)
    /\ {last.result.affectedParticipants[k] :
          k \in 1..Len(last.result.affectedParticipants)}
         = {last.pre[i].id : i \in InArea}

\* C9 witness: an area that holds an active participant and a downed one,
\* with a third participant outside it.
C9_Witness ==
  /\ AreaResolved
  /\ InArea # {}
  /\ \E i \in 1..Len(last.pre) :
       /\ last.pre[i].status = "downed"
       /\ calculateDistance(last.request.primaryTarget.x, last.request.primaryTarget.y,
                            last.pre[i].x, last.pre[i].y) <= LastAbility.effectRadius
  /\ \E i \in 1..Len(last.pre) :
       calculateDistance(last.request.primaryTarget.x, last.request.primaryTarget.y,
                         last.pre[i].x, last.pre[i].y) > LastAbility.effectRadius

\* the last call is an enemy- or ally-targeted ability used by a participant
TeamCall ==
  /\ Loaded
  /\ LastAbility.targetType \in {"enemy", "ally"}

\* the target's team contradicts the ability's target type
WrongTeam ==
  /\ LastTarget # 0
  /\ \/ /\ LastAbility.targetType = "enemy"
        /\ last.pre[LastActor].team = last.pre[LastTarget].team
     \/ /\ LastAbility.targetType = "ally"
        /\ last.pre[LastActor].team # last.pre[LastTarget].team

\* C10: an enemy-type ability on a team-mate and an ally-type ability on an
\* opponent fail, spend nothing and leave the target alone; a request that
\* has no participantId or names an unknown participant fails.
C10_TeamAlignment ==
  TeamCall =>
    /\ WrongTeam =>
         /\ ~last.result.success
         /\ SameEconomy(participants[LastActor], last.pre[LastActor])
         /\ SameState(participants[LastTarget], last.pre[LastTarget])
    /\ LastTarget = 0 => ~last.result.success

\* C10 witness: an enemy-type ability aimed at a team-mate in range,
\* rejected for the team.
C10_Witness ==
  /\ TeamCall
  /\ WrongTeam
  /\ LastTargetDistance <= LastAbility.range
  /\ last.result.message = "Cannot target allies with this ability."

HoldsEffect(i, effectName) ==
  \E k \in 1..Len(participants[i].statusEffects) :
    /\ participants[i].statusEffects[k].name = effectName
    /\ participants[i].statusEffects[k].duration >= 1

\* C12: after a successful executeAbility of an ability with effectType
\* 'status' and a named statusEffect, every affected participant holds that
\* status effect with duration >= 1, for every target type, self included.
C12_StatusAttached ==
  (Loaded /\ last.result.success /\ LastAbility.effectType = "status"
     /\ LastAbility.statusEffect # "undefined") =>
    \A k \in 1..Len(last.result.affectedParticipants) :
      HoldsEffect(FindIndex(last.pre, last.result.affectedParticipants[k]),
                  LastAbility.statusEffect)

\* the resource an ability draws on: tapas when its resourceType is unspecified
CostType(ability) ==
  IF ability.resourceType = "null" THEN "tapas" ELSE ability.resourceType

\* what a participant holds of a resource
Pool(p, resourceType) ==
  CASE resourceType = "prana" -> p.currentPrana
    [] resourceType = "tapas" -> p.currentTapas
    [] resourceType = "maya"  -> p.currentMaya
    [] resourceType = "speed" -> p.remainingSpeed
    [] OTHER                  -> 0

InsufficientMessages ==
  {"Insufficient Prana", "Insufficient Tapas", "Insufficient Maya", "Insufficient movement"}

\* the last call is of an ability with a resource cost
CostlyCall == Loaded /\ LastAbility.resourceCost > 0

\* the last call's actor lacks the resource for it
CannotPay ==
  Pool(last.pre[LastActor], CostType(LastAbility)) < LastAbility.resourceCost

\* the pool named was charged the cost, and Tapas and Maya are otherwise as
\* they were
ChargedOnce ==
  /\ Pool(participants[LastActor], CostType(LastAbility))
       = Pool(last.pre[LastActor], CostType(LastAbility)) - LastAbility.resourceCost
  /\ \A resourceType \in {"tapas", "maya"} \ {CostType(LastAbility)} :
       Pool(participants[LastActor], resourceType)
         = Pool(last.pre[LastActor], resourceType)

\* the actor is not downed and has the action, bonus action or reaction the
\* ability takes
CanSpendAction ==
  /\ last.pre[LastActor].status # "downed"
  /\ LastAbility.actionType \in CountedActionTypes =>
       Counter(last.pre[LastActor], LastAbility.actionType) > 0

\* C13 as stated: an actor whose pool holds less than the cost is refused with
\* an 'Insufficient' message, and a successful call lowers that pool by
\* exactly the cost and leaves the other pools alone.
C13_CostAsStated ==
  CostlyCall =>
    /\ CannotPay => (~last.result.success /\ last.result.message \in InsufficientMessages)
    /\ last.result.success => ChargedOnce

\* C13: an actor whose pool holds less than the cost is refused, with an
\* 'Insufficient' message whenever it is not downed and has the action the
\* ability takes (these are checked first); a successful call lowers that pool
\* by exactly the cost and leaves the other pools alone.
C13_CostCheckedThenCharged ==
  CostlyCall =>
    /\ CannotPay =>
         /\ ~last.result.success
         /\ CanSpendAction => last.result.message \in InsufficientMessages
    /\ last.result.success => ChargedOnce

\* C13 witness: power_attack (3 Tapas) refused to an actor that has its bonus
\* action and fewer than 3 Tapas.
C13_Witness ==
  /\ CostlyCall
  /\ last.request.abilityId = "power_attack"
  /\ CannotPay
  /\ CanSpendAction
  /\ last.result.message = "Insufficient Tapas"

\* the last operation was that method of a SessionCharacter
OpCalled(op) == last.op = op

\* the roster index of the SessionCharacter the last operation was called on
Subject == FindIndex(last.pre, last.request.participantId)

\* the Subject before the operation, and after it
Before == last.pre[Subject]

After == participants[Subject]

\* C14: takeDamage(a), a >= 0, on a character with Prana p leaves it with
\* max(0, p - a), returns min(a, p), and sets the status to 'downed' exactly
\* when the Prana left is 0: otherwise the status is as it was.
C14_TakeDamageClamps ==
  (OpCalled("takeDamage") /\ last.request.amount >= 0) =>
    /\ After.currentPrana = Max(0, Before.currentPrana - last.request.amount)
    /\ last.returned = Min(last.request.amount, Before.currentPrana)
    /\ After.currentPrana = 0 => After.status = "downed"
    /\ After.currentPrana # 0 => After.status = Before.status

\* C14 witness: a blow larger than the Prana left downs an active character
\* and returns the Prana it had.
C14_Witness ==
  /\ OpCalled("takeDamage")
  /\ Before.status = "active"
  /\ Before.currentPrana > 0
  /\ last.request.amount > Before.currentPrana
  /\ After.currentPrana = 0
  /\ After.status = "downed"
  /\ last.returned = Before.currentPrana

\* C15: heal(a), a >= 0, leaves the character with min(Prana + a, maxPrana)
\* and returns the increase; a downed character becomes active if and only if
\* the resulting Prana is above 0, and any other status is left as it was.
C15_HealClampsAndRevives ==
  (OpCalled("heal") /\ last.request.amount >= 0) =>
    /\ After.currentPrana
         = Min(Before.currentPrana + last.request.amount, Before.character.maxPrana)
    /\ last.returned = After.currentPrana - Before.currentPrana
    /\ Before.status = "downed" => (After.status = "active" <=> After.currentPrana > 0)
    /\ Before.status # "downed" => After.status = Before.status

\* C15 witness: a downed character healed by more than its maxPrana is active
\* again with its maxPrana.
C15_Witness ==
  /\ OpCalled("heal")
  /\ Before.status = "downed"
  /\ Before.currentPrana = 0
  /\ Before.currentPrana + last.request.amount > Before.character.maxPrana
  /\ After.currentPrana = Before.character.maxPrana
  /\ After.status = "active"
  /\ last.returned = Before.character.maxPrana

\* the four pools spendResource knows
FourPools == {"prana", "tapas", "maya", "speed"}

\* every pool but those named is as it was before the operation
PoolsKept(spent) ==
  \A resourceType \in FourPools \ spent :
    Pool(After, resourceType) = Pool(Before, resourceType)

\* C16: spendResource(kind, a), a >= 0, of one of the four pools returns true
\* and lowers only that pool by a when the pool holds at least a, and returns
\* false with the four pools unchanged otherwise; a kind that is none of the
\* four returns false with no change; under spendResource calls alone no pool
\* is ever negative.
C16_SpendChecksThenDecrements ==
  /\ (OpCalled("spendResource") /\ last.request.amount >= 0) =>
       IF last.request.resourceType \in FourPools
       THEN IF Pool(Before, last.request.resourceType) >= last.request.amount
            THEN /\ last.returned = TRUE
                 /\ Pool(After, last.request.resourceType)
                      = Pool(Before, last.request.resourceType) - last.request.amount
                 /\ PoolsKept({last.request.resourceType})
            ELSE /\ last.returned = FALSE
                 /\ PoolsKept({})
       ELSE /\ last.returned = FALSE
            /\ After = Before
  /\ \A i \in 1..Len(participants), resourceType \in FourPools :
       Pool(participants[i], resourceType) >= 0

\* C16 witness: a spendResource call refused for a pool that is not empty but
\* holds less than the amount.
C16_Witness ==
  /\ OpCalled("spendResource")
  /\ last.request.resourceType \in FourPools
  /\ Pool(Before, last.request.resourceType) > 0
  /\ Pool(Before, last.request.resourceType) < last.request.amount
  /\ last.returned = FALSE
  /\ After = Before

\* the indices at which a list of status effects holds that name
EntriesOf(effects, effectName) ==
  {k \in 1..Len(effects) : effects[k].name = effectName}

\* C17: whatever addStatusEffect, removeStatusEffect and reset calls came
\* before, no participant holds two status effects of one name, and
\* addStatusEffect of a name already held leaves its one entry with the larger
\* of the duration held and the duration given.
C17_EffectsRefreshed ==
  /\ \A i \in 1..Len(participants) :
       \A k, l \in 1..Len(participants[i].statusEffects) :
         participants[i].statusEffects[k].name = participants[i].statusEffects[l].name
           => k = l
  /\ (OpCalled("addStatusEffect")
        /\ EntriesOf(Before.statusEffects, last.request.effectName) # {}) =>
       /\ Len(After.statusEffects) = Len(Before.statusEffects)
       /\ \A k \in EntriesOf(Before.statusEffects, last.request.effectName) :
            /\ After.statusEffects[k].name = last.request.effectName
            /\ After.statusEffects[k].duration
                 = Max(Before.statusEffects[k].duration, last.request.duration)

\* C17 witness: an effect held for 1 turn is added again for 2, after another
\* effect was added, and is held once, for 2.
C17_Witness ==
  /\ OpCalled("addStatusEffect")
  /\ Len(Before.statusEffects) = 2
  /\ \E k \in EntriesOf(Before.statusEffects, last.request.effectName) :
       /\ Before.statusEffects[k].duration < last.request.duration
       /\ After.statusEffects[k].duration = last.request.duration
  /\ Len(After.statusEffects) = 2

\* the status effects after a reset are those held before for more than one
\* turn, each with one turn less
DecayedExactly ==
  /\ \A k \in 1..Len(Before.statusEffects) :
       Before.statusEffects[k].duration - 1 > 0 =>
         \E l \in 1..Len(After.statusEffects) :
           /\ After.statusEffects[l].name = Before.statusEffects[k].name
           /\ After.statusEffects[l].duration = Before.statusEffects[k].duration - 1
  /\ \A l \in 1..Len(After.statusEffects) :
       /\ After.statusEffects[l].duration > 0
       /\ \E k \in 1..Len(Before.statusEffects) :
            /\ Before.statusEffects[k].name = After.statusEffects[l].name
            /\ Before.statusEffects[k].duration = After.statusEffects[l].duration + 1
  /\ Len(After.statusEffects)
       = Cardinality({k \in 1..Len(Before.statusEffects) :
                        Before.statusEffects[k].duration - 1 > 0})

\* C18: reset leaves the character with 1 action, 1 bonus action, 4 reactions
\* and 6 of speed whatever its speed was at construction, with every status
\* effect one turn shorter and exactly those at 0 or below removed, and with
\* its Prana, Tapas, Maya, position and status as they were.
C18_ResetRestoresBudget ==
  OpCalled("reset") =>
    /\ After.actions = 1
    /\ After.bonusActions = 1
    /\ After.reactions = 4
    /\ After.remainingSpeed = 6
    /\ DecayedExactly
    /\ After.currentPrana = Before.currentPrana
    /\ After.currentTapas = Before.currentTapas
    /\ After.currentMaya = Before.currentMaya
    /\ After.x = Before.x /\ After.y = Before.y /\ After.z = Before.z
    /\ After.status = Before.status

\* C18 witness: the recruit is reset after its shout, holding one effect for 1
\* turn and one for 2: it has its action again and holds the second for 1.
C18_Witness ==
  /\ OpCalled("reset")
  /\ last.request.participantId = "p2"
  /\ Before.actions = 0
  /\ Before.currentTapas < Before.character.maxTapas
  /\ \E k, l \in 1..Len(Before.statusEffects) :
       /\ Before.statusEffects[k].duration = 1
       /\ Before.statusEffects[l].duration = 2
  /\ Len(After.statusEffects) = 1
  /\ After.statusEffects[1].duration = 1
  /\ After.actions = 1

\* the Dakshata modifier of the participant of that id
ModifierOf(id) ==
  (participants[FindIndex(participants, id)].character.dakshata - 10) \div 2

\* C19: after establishTurnOrder the turn order lists the id of every current
\* participant once and nothing else, by non-increasing Dakshata modifier
\* floor((dakshata - 10) / 2), participants of equal modifier in their order
\* of addition, and the current turn index is 0.
C19_StableDescendingOrder ==
  OpCalled("establishTurnOrder") =>
    /\ Len(turnOrder) = Len(participants)
    /\ \A i \in 1..Len(participants) :
         \E k \in 1..Len(turnOrder) : turnOrder[k] = participants[i].id
    /\ \A k, l \in 1..Len(turnOrder) :
         k < l =>
           /\ ModifierOf(turnOrder[k]) >= ModifierOf(turnOrder[l])
           /\ ModifierOf(turnOrder[k]) = ModifierOf(turnOrder[l]) =>
                FindIndex(participants, turnOrder[k]) < FindIndex(participants, turnOrder[l])
    /\ currentTurnIndex = 0

\* C19 witness: the order is established again in the middle of a round, for
\* three participants of which the first added does not come first and two
\* have equal modifiers but different Dakshata.
C19_Witness ==
  /\ OpCalled("establishTurnOrder")
  /\ last.turn.currentTurnIndex > 0
  /\ Len(turnOrder) = 3
  /\ turnOrder[1] # participants[1].id
  /\ \E k, l \in 1..3 :
       /\ k < l
       /\ ModifierOf(turnOrder[k]) = ModifierOf(turnOrder[l])
       /\ participants[FindIndex(participants, turnOrder[k])].character.dakshata
            < participants[FindIndex(participants, turnOrder[l])].character.dakshata
  /\ currentTurnIndex = 0

\* every participant is as reset leaves it
AllReset ==
  /\ Len(participants) = Len(last.pre)
  /\ \A i \in 1..Len(participants) :
       /\ participants[i].actions = 1
       /\ participants[i].bonusActions = 1
       /\ participants[i].reactions = 4
       /\ participants[i].remainingSpeed = 6

\* C20: a nextTurn call at index i of a non-empty turn order of length n goes
\* to index i + 1 when i + 1 < n, with the round and every participant as
\* they were, and to index 0 when i + 1 = n, with the round one higher and
\* every participant reset: n calls in a row from index 0 pass 1 .. n - 1,
\* end at 0 and raise the round by exactly 1.
C20_RoundIsOnePass ==
  (OpCalled("nextTurn") /\ Len(last.turn.turnOrder) > 0
     /\ last.turn.currentTurnIndex < Len(last.turn.turnOrder)) =>
    /\ turnOrder = last.turn.turnOrder
    /\ IF last.turn.currentTurnIndex + 1 < Len(last.turn.turnOrder)
       THEN /\ currentTurnIndex = last.turn.currentTurnIndex + 1
            /\ round = last.turn.round
            /\ participants = last.pre
       ELSE /\ currentTurnIndex = 0
            /\ round = last.turn.round + 1
            /\ AllReset

\* C20 witness: the call that ends the pass over a turn order of three, whose
\* participants are reset to a speed they did not have.
C20_Witness ==
  /\ OpCalled("nextTurn")
  /\ Len(turnOrder) = 3
  /\ last.turn.currentTurnIndex = 2
  /\ currentTurnIndex = 0
  /\ round = last.turn.round + 1
  /\ participants # last.pre
  /\ AllReset

\* the participants of those teams that were active before the last operation
ActiveOf(teams) ==
  {i \in 1..Len(last.pre) : last.pre[i].team \in teams /\ last.pre[i].status = "active"}

\* the session and its roster are as they were before the last operation
SessionKept ==
  /\ participants = last.pre
  /\ turnOrder = last.turn.turnOrder
  /\ currentTurnIndex = last.turn.currentTurnIndex
  /\ round = last.turn.round

\* C21: checkCombatEnd returns 'enemies_won' when no 'player' or 'ally'
\* participant is active, also when no enemy is active either; otherwise
\* 'players_won' when no 'enemy' participant is active; otherwise null; and it
\* changes nothing.
C21_CombatEndBySides ==
  OpCalled("checkCombatEnd") =>
    /\ ActiveOf({"player", "ally"}) = {} => last.returned = "enemies_won"
    /\ (ActiveOf({"player", "ally"}) # {} /\ ActiveOf({"enemy"}) = {})
         => last.returned = "players_won"
    /\ (ActiveOf({"player", "ally"}) # {} /\ ActiveOf({"enemy"}) = {})
         \/ ActiveOf({"player", "ally"}) = {} \/ last.returned = "null"
    /\ SessionKept

\* C21 witness: an ally and a player are down and so is the enemy: the
\* enemies have won.
C21_Witness ==
  /\ OpCalled("checkCombatEnd")
  /\ \E i \in 1..Len(last.pre) : last.pre[i].team = "ally"
  /\ \A i \in 1..Len(last.pre) : last.pre[i].status = "downed"
  /\ last.returned = "enemies_won"

\* C26: once checkCombatEnd gives a winner, it gives the same winner after
\* every executeAbility call and every nextTurn call.
C26_EndedIsAbsorbing ==
  ((OpCalled("executeAbility") \/ OpCalled("nextTurn"))
     /\ checkCombatEnd(last.pre) # "null") =>
    checkCombatEnd(participants) = checkCombatEnd(last.pre)

\* the sides checkCombatEnd counts: 'player' and 'ally' together, 'enemy'
SideOf(team) == IF team \in {"player", "ally"} THEN "players" ELSE team

\* C30: an enemy-type ability never succeeds on a participant of the actor's
\* own side as checkCombatEnd counts the sides ('player' with 'ally'), and an
\* ally-type ability on such a participant is not refused for its team.
C30_TargetingAgreesWithSides ==
  (Loaded /\ LastTarget # 0
     /\ SideOf(last.pre[LastActor].team) = SideOf(last.pre[LastTarget].team)) =>
    /\ LastAbility.targetType = "enemy" => ~last.result.success
    /\ LastAbility.targetType = "ally" =>
         last.result.message # "Can only target allies with this ability."

\* participant i is neither the actor of the last call nor reported by it
Unreported(i) ==
  /\ i # LastActor
  /\ \A k \in 1..Len(last.result.affectedParticipants) :
       last.result.affectedParticipants[k] # last.pre[i].id

\* C28: after a successful executeAbility call every participant that is
\* neither the actor nor listed in affectedParticipants is exactly as it was
\* (pools, speed, counters, position, status, status effects), and no
\* executeAbility call changes turnOrder, currentTurnIndex or round.
C28_OnlyReportedMutated ==
  OpCalled("executeAbility") =>
    /\ last.result.success =>
         \A i \in 1..Len(last.pre) : Unreported(i) => participants[i] = last.pre[i]
    /\ turnOrder = last.turn.turnOrder
    /\ currentTurnIndex = last.turn.currentTurnIndex
    /\ round = last.turn.round

\* C28 witness: a successful call that changed a participant other than the
\* actor, which it reports, and left another alone, which it does not report.
C28_Witness ==
  /\ OpCalled("executeAbility")
  /\ last.result.success
  /\ \E i \in 1..Len(last.pre) :
       /\ i # LastActor
       /\ ~Unreported(i)
       /\ participants[i] # last.pre[i]
  /\ \E j \in 1..Len(last.pre) : Unreported(j) /\ participants[j] = last.pre[j]

\* the map of a GameSession constructed without options
mapWidth == 20

mapHeight == 15

\* the last call is a successful call of a teleport ability
Teleported ==
  /\ Loaded
  /\ LastAbility.effectType = "teleport"
  /\ last.result.success

\* no two of the participants parts stand on one cell
Apart(parts) ==
  \A i, j \in 1..Len(parts) :
    i # j => <<parts[i].x, parts[i].y>> # <<parts[j].x, parts[j].y>>

\* every one of the participants parts stands on the map
OnMap(parts) ==
  \A i \in 1..Len(parts) :
    /\ parts[i].x >= 0 /\ parts[i].x < mapWidth
    /\ parts[i].y >= 0 /\ parts[i].y < mapHeight

\* C29: after a successful executeAbility call of a teleport ability from a
\* state in which no two participants share a cell and all stand on the map,
\* no two participants share a cell and all stand on the map.
C29_TeleportNeverStacks ==
  (Teleported /\ Apart(last.pre) /\ OnMap(last.pre)) =>
    (Apart(participants) /\ OnMap(participants))

\* C27: while the turn order is not empty, currentTurnIndex is an index of
\* it (0 <= currentTurnIndex < turnOrder.length) and getCurrentActor returns
\* a participant of the session; getCurrentActor returns null only when the
\* turn order is empty.
C27_CurrentActorDefined ==
  \E actor \in {getCurrentActor(participants, turnOrder, currentTurnIndex)} :
    /\ Len(turnOrder) > 0 =>
         /\ currentTurnIndex >= 0
         /\ currentTurnIndex < Len(turnOrder)
         /\ FindIndex(participants, actor) # 0
    /\ actor = "null" <=> Len(turnOrder) = 0

\* the cells of a returned list of moves
CellsOf(moves) == {<<moves[k].x, moves[k].y>> : k \in 1..Len(moves)}

\* no entry of a returned list of moves stands for the cell of another
EachOnce(moves) ==
  \A i, j \in 1..Len(moves) :
    i # j => <<moves[i].x, moves[i].y>> # <<moves[j].x, moves[j].y>>

\* the Manhattan distance of two cells
Manhattan(a, b) == Abs(a[1] - b[1]) + Abs(a[2] - b[2])

\* C22: GridSystem.calculateMovementRange(x, y, range) returns exactly the
\* cells at Manhattan distance 1..range from (x, y) that are inside the grid
\* and hold no unit, each once.
C22_RangeIsDiamond ==
  OpCalled("GridSystem.calculateMovementRange") =>
    LET start == <<last.request.gridX, last.request.gridY>>
    IN /\ CellsOf(last.returned) =
            {c \in AllCells :
               /\ Manhattan(start, c) >= 1
               /\ Manhattan(start, c) <= last.request.range
               /\ c \notin DOMAIN gridSystem.units}
       /\ EachOnce(last.returned)

\* C22 witness: range 3 from the middle of the empty board: the 24 cells of
\* the diamond without its centre.
C22_Witness ==
  /\ OpCalled("GridSystem.calculateMovementRange")
  /\ DOMAIN gridSystem.units = {}
  /\ last.request = [gridX |-> 4, gridY |-> 4, range |-> 3]
  /\ Len(last.returned) = 24

\* The length of the shortest 4-directional path between two cells over
\* valid tiles: every tile of the rectangle is walkable, so it is the
\* Manhattan distance.
PathLength(a, b) == Manhattan(a, b)

\* the last call asked the isometric grid for a movement range, units not
\* ignored
IsoRangeAsked ==
  /\ OpCalled("IsometricGrid.calculateMovementRange")
  /\ ~last.request.ignoreUnits

\* C23: IsometricGrid.calculateMovementRange(start, maxDistance) returns,
\* each once, the in-bounds unoccupied cells other than the start whose
\* shortest path from the start is at most maxDistance long, each with that
\* length as its dist.
C23_IsoRangeWithoutStart ==
  IsoRangeAsked =>
    LET start == <<last.request.startX, last.request.startY>>
    IN /\ CellsOf(last.returned) =
            {c \in AllCells :
               /\ c # start
               /\ c \notin grid.tiles
               /\ PathLength(start, c) <= last.request.maxDistance}
       /\ EachOnce(last.returned)
       /\ \A k \in 1..Len(last.returned) :
            last.returned[k].dist =
              PathLength(start, <<last.returned[k].x, last.returned[k].y>>)

\* the cells the participants stand on
Positions(parts) == {<<parts[i].x, parts[i].y>> : i \in 1..Len(parts)}

\* C24: the isometric grid marks a cell occupied exactly when a participant
\* stands on it, after every move on the grid and every executeAbility
\* teleport.
C24_OccupancyFollowsPositions == grid.tiles = Positions(participants)

\* floor((s - 10) / 2): the integer m with 2m <= s - 10 < 2m + 2
FloorHalfFromTen(s) ==
  CHOOSE m \in -20..20 : 2 * m <= s - 10 /\ s - 10 < 2 * m + 2

\* the ceilings of the character c by the formulas
CeilingsFollow(c) ==
  /\ c.maxPrana = Max(1, 20 + 2 * c.dhriti + c.buddhi + 5 * (c.level - 1))
  /\ c.maxTapas = Max(5, 10 + 2 * c.level + 2 * FloorHalfFromTen(c.bala)
                           + FloorHalfFromTen(c.dakshata))
  /\ c.maxMaya = Max(5, 10 + 2 * c.level + 2 * FloorHalfFromTen(c.buddhi)
                          + FloorHalfFromTen(c.prajna))

====
